---- MODULE Spec2Model ----
(***************************************************************************)
(* A model of the hiproc command store (src/src/hiproc/crud.py over the    *)
(* tables of src/src/hiproc/models.py).                                    *)
(*                                                                         *)
(* Strings that the code only compares for equality (name, namespace,      *)
(* user, hostname, scope) are TLA+ strings; Python None / SQL NULL is the  *)
(* value None, which no drawn string equals.  Strings the code takes apart *)
(* (cwd, command_string) are sequences of one-character strings, and their *)
(* NULL is NoneS.  Timestamps are integers read from the clock `now`;      *)
(* a NULL last_used_at is NullTime.                                        *)
(***************************************************************************)
EXTENDS Integers, Sequences, FiniteSets, TLC

VARIABLES
    commands,     \* table "commands": id -> row             (models.py 35-47)
    executions,   \* table "execution_history": id -> row    (models.py 66-77)
    now,          \* the wall clock read by utcnow() / func.now()
    last,         \* the most recent completed call and what it returned
    sess,         \* the units of work (sessions) that run concurrently
    project_contexts, \* table "project_contexts": id -> row (models.py 119-127)
    detections    \* history: directory pattern -> completed detections

vars == <<commands, executions, now, last, sess, project_contexts, detections>>

----------------------------------------------------------------------------
(* Bounds *)

MaxCmds  == 2     \* rows of "commands" (and the largest id handed out)
MaxExecs == 2     \* rows of "execution_history"
MaxClock == 1     \* clock readings 0..MaxClock
MaxUse   == 1     \* use_count values 0..MaxUse
MaxLimit == 2     \* `limit` arguments 0..MaxLimit
MaxDetect == 3    \* usage_count of a project context 1..MaxDetect
MaxSimilar == 3   \* `limit` of get_command_similarity over five commands

----------------------------------------------------------------------------
(* Values *)

None     == "None"
NoneS    == <<"None">>
NullTime == -1

PERSONAL == "personal"

\* The empty Python string: falsy like None, but a value for SQL.
EmptyStr == ""

Truthy(x)  == x /= None /\ x /= EmptyStr
TruthyS(s) == s /= NoneS /\ s /= <<>>

\* `column == value` as SQLAlchemy renders it: `column IS NULL` when the
\* Python value is None, `column = value` otherwise (never true of a NULL
\* column).
SqlEqNullUnsafe(col, val, null) == col /= null /\ val /= null /\ col = val
SqlEq(col, val, null) ==
    IF val = null THEN col = null ELSE (col /= null /\ col = val)

\* `column != value` for a non-NULL value: not true of a NULL column.
SqlNe(col, val, null) == col /= null /\ col /= val

----------------------------------------------------------------------------
(* Strings as character sequences *)

Lower(ch) ==
    CASE ch = "A" -> "a"
      [] ch = "B" -> "b"
      [] OTHER    -> ch

\* str.split('/')[-1]: what follows the last "/" (the whole string when it
\* has none).
RECURSIVE LastSegment(_)
LastSegment(s) ==
    IF s = <<>> THEN <<>>
    ELSE IF s[Len(s)] = "/" THEN <<>>
    ELSE Append(LastSegment(SubSeq(s, 1, Len(s) - 1)), s[Len(s)])

\* SQLite's LIKE: "%" matches any run of characters, "_" any one character,
\* letters compare without regard to case.
RECURSIVE LikeMatch(_, _)
LikeMatch(pat, str) ==
    IF pat = <<>> THEN str = <<>>
    ELSE IF Head(pat) = "%"
         THEN \/ LikeMatch(Tail(pat), str)
              \/ (str /= <<>> /\ LikeMatch(pat, Tail(str)))
    ELSE /\ str /= <<>>
         /\ (Head(pat) = "_" \/ Lower(Head(pat)) = Lower(Head(str)))
         /\ LikeMatch(Tail(pat), Tail(str))

\* column.like(pattern): never true of a NULL column.
SqlLike(col, pat) == col /= NoneS /\ LikeMatch(pat, col)

\* f"%{cwd.split('/')[-1]}%"
SimilarPattern(cwd) == <<"%">> \o LastSegment(cwd) \o <<"%">>

----------------------------------------------------------------------------
(* The store *)

Ids == 1 .. MaxCmds

\* INTEGER PRIMARY KEY without AUTOINCREMENT: the largest rowid plus one.
MaxOf(S) == IF S = {} THEN 0 ELSE CHOOSE m \in S : \A x \in S : x <= m
NextId(table) == MaxOf(DOMAIN table) + 1

Insert(table, id, row) ==
    [i \in DOMAIN table \cup {id} |-> IF i = id THEN row ELSE table[i]]

Remove(table, gone) == [i \in DOMAIN table \ gone |-> table[i]]

EmptyTable == [i \in {} |-> 0]

\* The seven attributes create_command compares.
SevenTuple(c) ==
    <<c.command_string, c.name, c.namespace, c.user, c.cwd, c.hostname, c.scope>>

NoCall ==
    [op |-> "none", user |-> None, id |-> 0, result |-> 0, tier |-> 0,
     is_new |-> FALSE, out |-> <<>>, limit |-> 0, confidence |-> 0,
     scan |-> <<>>]

Call(op, user, id, result, tier) ==
    [op |-> op, user |-> user, id |-> id, result |-> result, tier |-> tier,
     is_new |-> FALSE, out |-> <<>>, limit |-> 0, confidence |-> 0,
     scan |-> <<>>]

NoSessions == <<>>

\* No directory pattern has been detected.
NoDetections == [p \in {} |-> 0]

----------------------------------------------------------------------------
(* Usage statistics *)

\* The timestamp is refreshed and the counter is not.
update_usage_stats_no_count(table, id) ==
    [table EXCEPT ![id].last_used_at = now]

\* The statistics of every stored command brought up to date, not of one.
update_usage_stats_every_row(table, id) ==
    [i \in DOMAIN table |->
        [table[i] EXCEPT !.use_count = @ + 1, !.last_used_at = now]]

\* use_count += 1; last_used_at = utcnow(); commit.
update_usage_stats(table, id) ==
    [table EXCEPT ![id].use_count = @ + 1, ![id].last_used_at = now]

\* The orderings of the queries.  A key is a sequence of integers compared
\* position by position; .first() returns a row with the largest key, and
\* which one among rows of equal key is up to the store.  A NULL timestamp
\* is NullTime, below every reading of the clock, which is where
\* desc().nullslast() puts it.
KeyGE(k1, k2) ==
    \/ k1[1] > k2[1]
    \/ k1[1] = k2[1] /\ (Len(k1) = 1 \/ k1[2] >= k2[2])

\* The creation time ascending: the oldest row first.
ByCreatedAscending ==
    [id \in DOMAIN commands |-> <<0 - commands[id].created_at>>]

ByCreated ==
    [id \in DOMAIN commands |-> <<commands[id].created_at>>]
ByLastUsedCreated ==
    [id \in DOMAIN commands |->
        <<commands[id].last_used_at, commands[id].created_at>>]
ByUseLastUsed ==
    [id \in DOMAIN commands |->
        <<commands[id].use_count, commands[id].last_used_at>>]
ByUse ==
    [id \in DOMAIN commands |-> <<commands[id].use_count>>]

\* The rows .order_by(key desc).first() can return from the candidates S.
First(S, key) == {id \in S : \A j \in S : KeyGE(key[id], key[j])}

----------------------------------------------------------------------------
(* recall_command *)

\* The personal filters without the comparison of the owner.
personal_filters_any_owner(c, a) ==
    << /\ SqlEq(c.hostname, a.hostname, None)
       /\ SqlEq(c.cwd, a.cwd, NoneS),
       SqlEq(c.hostname, a.hostname, None) >>

personal_filters(c, a) ==
    << /\ SqlEq(c.user, a.user, None)
       /\ SqlEq(c.hostname, a.hostname, None)
       /\ SqlEq(c.cwd, a.cwd, NoneS),
       /\ SqlEq(c.user, a.user, None)
       /\ SqlEq(c.hostname, a.hostname, None) >>

shared_filters(c, a) ==
    << /\ SqlEq(c.hostname, a.hostname, None)
       /\ SqlEq(c.cwd, a.cwd, NoneS),
       SqlEq(c.hostname, a.hostname, None) >>

\* The WHERE clause of the k-th query of recall_command, k in 1..5.
RecallFilter(k, c, a) ==
    /\ SqlEq(c.name, a.name, None)
    /\ SqlEq(c.namespace, a.namespace, None)
    /\ CASE k \in {1, 2} -> /\ SqlEq(c.scope, PERSONAL, None)
                            /\ personal_filters(c, a)[k]
         [] k \in {3, 4} -> /\ SqlNe(c.scope, PERSONAL, None)
                            /\ shared_filters(c, a)[k - 2]
         [] OTHER        -> TRUE

RecallRows(k, a) == {id \in DOMAIN commands : RecallFilter(k, commands[id], a)}

\* The shared-scope queries asked before the personal ones.
RecallTierSharedFirst(a) ==
    IF RecallRows(3, a) /= {} THEN 3
    ELSE IF RecallRows(4, a) /= {} THEN 4
    ELSE IF RecallRows(1, a) /= {} THEN 1
    ELSE IF RecallRows(2, a) /= {} THEN 2
    ELSE IF RecallRows(5, a) /= {} THEN 5
    ELSE 0

\* The first query that returns a row (0 when none does).
RecallTier(a) ==
    IF RecallRows(1, a) /= {} THEN 1
    ELSE IF RecallRows(2, a) /= {} THEN 2
    ELSE IF RecallRows(3, a) /= {} THEN 3
    ELSE IF RecallRows(4, a) /= {} THEN 4
    ELSE IF RecallRows(5, a) /= {} THEN 5
    ELSE 0

recall_command(a) ==
    LET k == RecallTier(a) IN
    IF k = 0
    THEN /\ last' = Call("recall_command", a.user, 0, 0, 0)
         /\ UNCHANGED <<commands, executions, now, sess, project_contexts, detections>>
    ELSE \E id \in First(RecallRows(k, a), ByCreated) :
            /\ commands[id].use_count < MaxUse
            /\ commands' = update_usage_stats(commands, id)
            /\ last' = Call("recall_command", a.user, 0, id, k)
            /\ UNCHANGED <<executions, now, sess, project_contexts, detections>>

----------------------------------------------------------------------------
(* recall_command_by_name *)

\* The gates with the last query asked only on behalf of a user.
ByNameGateUserOnly(k, a) ==
    CASE k = 1 -> /\ Truthy(a.user) /\ Truthy(a.hostname)
                  /\ TruthyS(a.cwd) /\ Truthy(a.namespace_hint)
      [] k = 2 -> Truthy(a.user) /\ Truthy(a.hostname) /\ Truthy(a.namespace_hint)
      [] k = 3 -> Truthy(a.user) /\ Truthy(a.hostname) /\ TruthyS(a.cwd)
      [] k = 4 -> Truthy(a.user) /\ Truthy(a.hostname)
      [] k = 5 -> TruthyS(a.cwd)
      [] k = 6 -> Truthy(a.namespace_hint)
      [] k = 7 -> Truthy(a.scope_hint)
      [] OTHER -> Truthy(a.user)

\* The `if all([...])` / `if x:` in front of the k-th query, k in 1..9.
ByNameGate(k, a) ==
    CASE k = 1 -> /\ Truthy(a.user) /\ Truthy(a.hostname)
                  /\ TruthyS(a.cwd) /\ Truthy(a.namespace_hint)
      [] k = 2 -> Truthy(a.user) /\ Truthy(a.hostname) /\ Truthy(a.namespace_hint)
      [] k = 3 -> Truthy(a.user) /\ Truthy(a.hostname) /\ TruthyS(a.cwd)
      [] k = 4 -> Truthy(a.user) /\ Truthy(a.hostname)
      [] k = 5 -> TruthyS(a.cwd)
      [] k = 6 -> Truthy(a.namespace_hint)
      [] k = 7 -> Truthy(a.scope_hint)
      [] k = 8 -> Truthy(a.user)
      [] OTHER -> TRUE

\* The pattern made of the whole cwd, not of its last segment.
similar_pattern_whole_cwd(cwd) == <<"%">> \o cwd \o <<"%">>

\* similar_pattern of priority 5.
similar_pattern(cwd) ==
    IF \E i \in 1..Len(cwd) : cwd[i] = "/"
    THEN SimilarPattern(cwd)
    ELSE <<"%">> \o cwd \o <<"%">>

\* The filter the k-th query adds to base_query.
ByNameFilter(k, c, a) ==
    CASE k = 1 -> /\ SqlEq(c.user, a.user, None)
                  /\ SqlEq(c.hostname, a.hostname, None)
                  /\ SqlEq(c.cwd, a.cwd, NoneS)
                  /\ SqlEq(c.namespace, a.namespace_hint, None)
                  /\ SqlEq(c.scope, PERSONAL, None)
      [] k = 2 -> /\ SqlEq(c.user, a.user, None)
                  /\ SqlEq(c.hostname, a.hostname, None)
                  /\ SqlEq(c.namespace, a.namespace_hint, None)
                  /\ SqlEq(c.scope, PERSONAL, None)
      [] k = 3 -> /\ SqlEq(c.user, a.user, None)
                  /\ SqlEq(c.hostname, a.hostname, None)
                  /\ SqlEq(c.cwd, a.cwd, NoneS)
                  /\ SqlEq(c.scope, PERSONAL, None)
      [] k = 4 -> /\ SqlEq(c.user, a.user, None)
                  /\ SqlEq(c.hostname, a.hostname, None)
                  /\ SqlEq(c.scope, PERSONAL, None)
      [] k = 5 -> /\ SqlLike(c.cwd, similar_pattern(a.cwd))
                  /\ (IF Truthy(a.user) THEN SqlEq(c.user, a.user, None) ELSE TRUE)
      [] k = 6 -> SqlEq(c.namespace, a.namespace_hint, None)
      [] k = 7 -> SqlEq(c.scope, a.scope_hint, None)
      [] k = 8 -> SqlEq(c.user, a.user, None)
      [] OTHER -> TRUE

\* base_query: the rows with the requested name.
base_query(a) == {id \in DOMAIN commands : SqlEq(commands[id].name, a.name, None)}

ByNameRows(k, a) ==
    IF ByNameGate(k, a)
    THEN {id \in base_query(a) : ByNameFilter(k, commands[id], a)}
    ELSE {}

\* order_by(...).first() of the k-th query.
ByNameFirst(k, S) ==
    CASE k \in {1, 2}    -> First(S, ByLastUsedCreated)
      [] k \in {3, 4, 9} -> First(S, ByUseLastUsed)
      [] OTHER           -> First(S, ByUse)

\* The most popular command of that name, whatever the context.
ByNameTierPopularOnly(a) == IF ByNameRows(9, a) /= {} THEN 9 ELSE 0

\* The queries without the one for the namespace hint.
ByNameTierNoHint(a) ==
    IF ByNameRows(1, a) /= {} THEN 1
    ELSE IF ByNameRows(2, a) /= {} THEN 2
    ELSE IF ByNameRows(3, a) /= {} THEN 3
    ELSE IF ByNameRows(4, a) /= {} THEN 4
    ELSE IF ByNameRows(5, a) /= {} THEN 5
    ELSE IF ByNameRows(7, a) /= {} THEN 7
    ELSE IF ByNameRows(8, a) /= {} THEN 8
    ELSE IF ByNameRows(9, a) /= {} THEN 9
    ELSE 0

\* The first query that returns a row (0 when none does).
ByNameTier(a) ==
    IF ByNameRows(1, a) /= {} THEN 1
    ELSE IF ByNameRows(2, a) /= {} THEN 2
    ELSE IF ByNameRows(3, a) /= {} THEN 3
    ELSE IF ByNameRows(4, a) /= {} THEN 4
    ELSE IF ByNameRows(5, a) /= {} THEN 5
    ELSE IF ByNameRows(6, a) /= {} THEN 6
    ELSE IF ByNameRows(7, a) /= {} THEN 7
    ELSE IF ByNameRows(8, a) /= {} THEN 8
    ELSE IF ByNameRows(9, a) /= {} THEN 9
    ELSE 0

recall_command_by_name(a) ==
    LET k == ByNameTier(a) IN
    IF k = 0
    THEN /\ last' = Call("recall_command_by_name", a.user, 0, 0, 0)
         /\ UNCHANGED <<commands, executions, now, sess, project_contexts, detections>>
    ELSE \E id \in ByNameFirst(k, ByNameRows(k, a)) :
            /\ commands[id].use_count < MaxUse
            /\ commands' = update_usage_stats(commands, id)
            /\ last' = Call("recall_command_by_name", a.user, 0, id, k)
            /\ UNCHANGED <<executions, now, sess, project_contexts, detections>>

----------------------------------------------------------------------------
(* create / update / rename / delete *)

\* The duplicate check with `=` where a value is NULL, which no row satisfies.
ExistingCommandNullUnsafe(cmd) ==
    {id \in DOMAIN commands :
        /\ SqlEqNullUnsafe(commands[id].command_string, cmd.command_string, NoneS)
        /\ SqlEqNullUnsafe(commands[id].name, cmd.name, None)
        /\ SqlEqNullUnsafe(commands[id].namespace, cmd.namespace, None)
        /\ SqlEqNullUnsafe(commands[id].user, cmd.user, None)
        /\ SqlEqNullUnsafe(commands[id].cwd, cmd.cwd, NoneS)
        /\ SqlEqNullUnsafe(commands[id].hostname, cmd.hostname, None)
        /\ SqlEqNullUnsafe(commands[id].scope, cmd.scope, None)}

\* The rows the duplicate check of create_command matches.
ExistingCommand(cmd) ==
    {id \in DOMAIN commands :
        /\ SqlEq(commands[id].command_string, cmd.command_string, NoneS)
        /\ SqlEq(commands[id].name, cmd.name, None)
        /\ SqlEq(commands[id].namespace, cmd.namespace, None)
        /\ SqlEq(commands[id].user, cmd.user, None)
        /\ SqlEq(commands[id].cwd, cmd.cwd, NoneS)
        /\ SqlEq(commands[id].hostname, cmd.hostname, None)
        /\ SqlEq(commands[id].scope, cmd.scope, None)}

\* models.Command(**command_data) as the INSERT stores it.
NewCommand(cmd) ==
    [command_string |-> cmd.command_string, name |-> cmd.name,
     namespace |-> cmd.namespace, user |-> cmd.user, cwd |-> cmd.cwd,
     hostname |-> cmd.hostname, scope |-> cmd.scope,
     created_at |-> now, last_used_at |-> NullTime, use_count |-> 0]

create_command(cmd) ==
    IF ExistingCommand(cmd) /= {}
    THEN \E id \in ExistingCommand(cmd) :
            /\ last' = [Call("create_command", cmd.user, 0, id, 0)
                            EXCEPT !.is_new = FALSE]
            /\ UNCHANGED <<commands, executions, now, sess, project_contexts, detections>>
    ELSE /\ NextId(commands) <= MaxCmds
         /\ commands' = Insert(commands, NextId(commands), NewCommand(cmd))
         /\ last' = [Call("create_command", cmd.user, 0, NextId(commands), 0)
                            EXCEPT !.is_new = TRUE]
         /\ UNCHANGED <<executions, now, sess, project_contexts, detections>>

\* The lookup by identifier alone.
OwnedCommandAnyUser(command_id, user) ==
    IF command_id \in DOMAIN commands THEN command_id ELSE 0

\* The lookup that also admits the commands of the shared scopes.
OwnedOrSharedCommand(command_id, user) ==
    IF /\ command_id \in DOMAIN commands
       /\ \/ SqlEq(commands[command_id].user, user, None)
          \/ SqlNe(commands[command_id].scope, PERSONAL, None)
    THEN command_id ELSE 0

\* filter(id == command_id, user == user).first()
OwnedCommand(command_id, user) ==
    IF /\ command_id \in DOMAIN commands
       /\ SqlEq(commands[command_id].user, user, None)
    THEN command_id ELSE 0

update_command(command_id, user, command_string) ==
    LET db_command == OwnedCommand(command_id, user) IN
    /\ last' = Call("update_command", user, command_id, db_command, 0)
    /\ commands' = IF db_command /= 0
                   THEN [commands EXCEPT
                            ![db_command].command_string = command_string]
                   ELSE commands
    /\ UNCHANGED <<executions, now, sess, project_contexts, detections>>

rename_command(command_id, user, name, namespace) ==
    LET db_command == OwnedCommand(command_id, user) IN
    /\ last' = Call("rename_command", user, command_id, db_command, 0)
    /\ commands' = IF db_command /= 0
                   THEN [commands EXCEPT ![db_command].name = name,
                                         ![db_command].namespace = namespace]
                   ELSE commands
    /\ UNCHANGED <<executions, now, sess, project_contexts, detections>>

\* The DELETE of the command alone, its execution rows left where they are.
delete_command_no_cascade(command_id, user) ==
    LET db_command == OwnedCommand(command_id, user) IN
    /\ last' = Call("delete_command", user, command_id, db_command, 0)
    /\ commands' = IF db_command /= 0
                   THEN Remove(commands, {db_command})
                   ELSE commands
    /\ UNCHANGED <<executions, now, sess, project_contexts, detections>>

\* relationship(..., cascade="all, delete-orphan"): the rows of
\* execution_history that reference the command go with it.
delete_command(command_id, user) ==
    LET db_command == OwnedCommand(command_id, user) IN
    /\ last' = Call("delete_command", user, command_id, db_command, 0)
    /\ IF db_command /= 0
       THEN /\ commands' = Remove(commands, {db_command})
            /\ executions' = Remove(executions,
                   {e \in DOMAIN executions :
                        executions[e].command_id = db_command})
       ELSE UNCHANGED <<commands, executions>>
    /\ UNCHANGED <<now, sess, project_contexts, detections>>

----------------------------------------------------------------------------
(* get_command_by_id / track_execution *)

\* Only the owner's lookup, without the shared-scope one.
GetCommandByIdOwnerOnly(command_id, user) == OwnedCommand(command_id, user)

GetCommandById(command_id, user) ==
    IF OwnedCommand(command_id, user) /= 0
    THEN command_id
    ELSE IF /\ command_id \in DOMAIN commands
            /\ SqlNe(commands[command_id].scope, PERSONAL, None)
         THEN command_id
         ELSE 0

\* The lookup that counts as a use of the command.
get_command_by_id_counting(command_id, user) ==
    LET command == GetCommandById(command_id, user) IN
    /\ last' = Call("get_command_by_id", user, command_id, command, 0)
    /\ IF command /= 0
       THEN /\ commands[command].use_count < MaxUse
            /\ commands' = update_usage_stats(commands, command)
       ELSE UNCHANGED commands
    /\ UNCHANGED <<executions, now, sess, project_contexts, detections>>

get_command_by_id(command_id, user) ==
    /\ last' = Call("get_command_by_id", user, command_id,
                    GetCommandById(command_id, user), 0)
    /\ UNCHANGED <<commands, executions, now, sess, project_contexts, detections>>

\* track_execution that also records the execution in the history.
track_execution_recording(command_id, user) ==
    LET command == GetCommandById(command_id, user) IN
    /\ last' = Call("track_execution", user, command_id, command, 0)
    /\ IF command /= 0
       THEN /\ commands[command].use_count < MaxUse
            /\ commands' = update_usage_stats(commands, command)
            /\ executions' = Insert(executions, NextId(executions),
                    [command_id |-> command, user |-> user, hostname |-> None,
                     cwd |-> NoneS, execution_method |-> "id",
                     executed_at |-> now])
       ELSE UNCHANGED <<commands, executions>>
    /\ UNCHANGED <<now, sess, project_contexts, detections>>

track_execution(command_id, user) ==
    LET command == GetCommandById(command_id, user) IN
    /\ last' = Call("track_execution", user, command_id, command, 0)
    /\ IF command /= 0
       THEN /\ commands[command].use_count < MaxUse
            /\ commands' = update_usage_stats(commands, command)
       ELSE UNCHANGED commands
    /\ UNCHANGED <<executions, now, sess, project_contexts, detections>>

----------------------------------------------------------------------------
(* The clock *)

Tick ==
    /\ now < MaxClock
    /\ now' = now + 1
    /\ UNCHANGED <<commands, executions, last, sess, project_contexts, detections>>

----------------------------------------------------------------------------
(* Execution history and suggestions *)

\* models.ExecutionHistory(**execution.model_dump()): command_id is whatever
\* integer the caller sends (SQLite does not check the foreign key unless
\* asked to).  arguments, duration_ms and exit_code are stored and never
\* read by crud.py; they are left out.
create_execution_history(e) ==
    /\ NextId(executions) <= MaxExecs
    /\ executions' = Insert(executions, NextId(executions),
            [command_id |-> e.command_id, user |-> e.user,
             hostname |-> e.hostname, cwd |-> e.cwd,
             execution_method |-> e.execution_method, executed_at |-> now])
    /\ last' = Call("create_execution_history", e.user, e.command_id,
                    NextId(executions), 0)
    /\ UNCHANGED <<commands, now, sess, project_contexts, detections>>

Min(x, y) == IF x <= y THEN x ELSE y

\* The lists .order_by(score desc).all() can return for the rows S: every
\* arrangement of S in which the score never increases.
OrderedLists(S, score) ==
    {q \in [1..Cardinality(S) -> S] :
        /\ \A i, j \in DOMAIN q : i /= j => q[i] /= q[j]
        /\ \A i, j \in DOMAIN q : i < j => score[q[i]] >= score[q[j]]}

\* .limit(n): SQLite reads a negative LIMIT as no limit.
SqlLimit(q, n) == IF n < 0 THEN q ELSE SubSeq(q, 1, Min(n, Len(q)))

\* The execution rows, joined to command id, whose cwd is LIKE the pattern.
SimilarDirExecutions(id, cwd) ==
    {e \in DOMAIN executions :
        /\ executions[e].command_id = id
        /\ SqlLike(executions[e].cwd, SimilarPattern(cwd))}

\* Priority 1: the joined, grouped query ordered by count(execution id).
similar_dir_commands(a) ==
    LET S == {id \in DOMAIN commands : SimilarDirExecutions(id, a.cwd) /= {}}
        score == [id \in S |-> Cardinality(SimilarDirExecutions(id, a.cwd))]
    IN  {SqlLimit(q, a.limit) : q \in OrderedLists(S, score)}

\* Priority 2: the commands of the user by use_count, n slots left.
user_commands(a, n) ==
    LET S == {id \in DOMAIN commands : SqlEq(commands[id].user, a.user, None)}
        score == [id \in S |-> commands[id].use_count]
    IN  {SqlLimit(q, n) : q \in OrderedLists(S, score)}

\* Priority 3: the commands of the shared scopes by use_count, n slots left.
popular_shared(n) ==
    LET S == {id \in DOMAIN commands : SqlNe(commands[id].scope, PERSONAL, None)}
        score == [id \in S |-> commands[id].use_count]
    IN  {SqlLimit(q, n) : q \in OrderedLists(S, score)}

\* The list cut to `limit` with its duplicates left in.
first_suggestions(suggestions, acc, limit) ==
    SubSeq(suggestions, 1, Min(limit, Len(suggestions)))

\* "Remove duplicates while preserving order".
RECURSIVE unique_suggestions(_, _, _)
unique_suggestions(suggestions, acc, limit) ==
    IF suggestions = <<>> THEN acc
    ELSE LET cmd == Head(suggestions) IN
         IF (\A i \in DOMAIN acc : acc[i] /= cmd) /\ Len(acc) < limit
         THEN unique_suggestions(Tail(suggestions), Append(acc, cmd), limit)
         ELSE unique_suggestions(Tail(suggestions), acc, limit)

\* The lists get_suggestions_for_context can return.
Suggestions(a) ==
    LET P1 == IF TruthyS(a.cwd) THEN similar_dir_commands(a) ELSE {<<>>}
        P2(s1) == IF Truthy(a.user) /\ Len(s1) < a.limit
                  THEN {s1 \o q : q \in user_commands(a, a.limit - Len(s1))}
                  ELSE {s1}
        P3(s2) == IF Len(s2) < a.limit
                  THEN {s2 \o q : q \in popular_shared(a.limit - Len(s2))}
                  ELSE {s2}
    IN  UNION {UNION {{unique_suggestions(s3, <<>>, a.limit) : s3 \in P3(s2)}
                        : s2 \in P2(s1)} : s1 \in P1}

get_suggestions_for_context(a) ==
    \E out \in Suggestions(a) :
        /\ last' = [Call("get_suggestions_for_context", a.user, 0, 0, 0)
                        EXCEPT !.out = out, !.limit = a.limit]
        /\ UNCHANGED <<commands, executions, now, sess, project_contexts, detections>>

----------------------------------------------------------------------------
(* Similarity, listing and analytics *)

\* str.lower().split() as a set: the lower-cased words between white space.
RECURSIVE Split(_, _)
Split(s, word) ==
    IF s = <<>> THEN (IF word = <<>> THEN {} ELSE {word})
    ELSE IF Head(s) = " "
         THEN (IF word = <<>> THEN {} ELSE {word}) \cup Split(Tail(s), <<>>)
    ELSE Split(Tail(s), Append(word, Lower(Head(s))))

Words(s) == Split(s, <<>>)

\* q[:n] of Python.
PySlice(q, n) ==
    IF n >= 0 THEN SubSeq(q, 1, Min(n, Len(q)))
    ELSE SubSeq(q, 1, IF Len(q) + n > 0 THEN Len(q) + n ELSE 0)

\* The commands of the base command's namespace, the base command among them.
namespace_similar_with_self(command_id, limit) ==
    LET S == {id \in DOMAIN commands :
                 SqlEq(commands[id].namespace,
                       commands[command_id].namespace, None)}
        score == [id \in S |-> commands[id].use_count]
    IN  {SqlLimit(q, limit) : q \in OrderedLists(S, score)}

\* The other commands of the base command's namespace by use_count.
namespace_similar(command_id, limit) ==
    LET S == {id \in DOMAIN commands :
                 /\ SqlEq(commands[id].namespace,
                          commands[command_id].namespace, None)
                 /\ id /= command_id}
        score == [id \in S |-> commands[id].use_count]
    IN  {SqlLimit(q, limit) : q \in OrderedLists(S, score)}

overlap(id, command_id) ==
    Cardinality(Words(commands[command_id].command_string)
                    \cap Words(commands[id].command_string))

\* db.query(Command).filter(id != command_id).all(): the other commands in
\* the order the scan returns them, which is the store's to choose.
remaining_commands(command_id) ==
    LET S == DOMAIN commands \ {command_id}
    IN  OrderedLists(S, [id \in S |-> 0])

\* The commands that share a word with the base command, left in the order
\* of the scan.
similar_by_words_unsorted(command_id, scan) ==
    SelectSeq(scan, LAMBDA id : overlap(id, command_id) > 0)

\* The commands of the scan that share a word with the base command, after
\* list.sort(key=overlap, reverse=True): by the number of shared words, and
\* commands of equal overlap in the order of the scan (the sort is stable).
similar_by_words(command_id, scan) ==
    LET found  == SelectSeq(scan, LAMBDA id : overlap(id, command_id) > 0)
        S      == {found[i] : i \in DOMAIN found}
        Pos(id) == CHOOSE i \in DOMAIN found : found[i] = id
        score  == [id \in S |-> overlap(id, command_id)]
    IN  CHOOSE q \in OrderedLists(S, score) :
            \A i, j \in DOMAIN q :
                (i < j /\ score[q[i]] = score[q[j]]) => Pos(q[i]) < Pos(q[j])

\* What get_command_similarity can return, with the scan it made (none when
\* the command is not stored or its namespace fills the list).
CommandSimilarity(command_id, limit) ==
    IF command_id \notin DOMAIN commands THEN {[out |-> <<>>, scan |-> <<>>]}
    ELSE UNION {IF Len(ns) >= limit THEN {[out |-> ns, scan |-> <<>>]}
                ELSE {[out |-> PySlice(ns \o PySlice(similar_by_words(command_id, scan),
                                                     limit - Len(ns)), limit),
                       scan |-> scan] :
                        scan \in remaining_commands(command_id)} :
                    ns \in namespace_similar(command_id, limit)}

get_command_similarity(command_id, limit) ==
    \E r \in CommandSimilarity(command_id, limit) :
        /\ last' = [Call("get_command_similarity", None, command_id, 0, 0)
                        EXCEPT !.out = r.out, !.limit = limit, !.scan = r.scan]
        /\ UNCHANGED <<commands, executions, now, sess, project_contexts, detections>>

\* The rows get_commands selects: each filter applies when its argument is
\* truthy; contains(q) is LIKE '%' || q || '%'.
CommandsSelected(a) ==
    {id \in DOMAIN commands :
        /\ TruthyS(a.q) =>
              SqlLike(commands[id].command_string, <<"%">> \o a.q \o <<"%">>)
        /\ Truthy(a.namespace) => SqlEq(commands[id].namespace, a.namespace, None)
        /\ Truthy(a.user) => SqlEq(commands[id].user, a.user, None)
        /\ Truthy(a.scope) => SqlEq(commands[id].scope, a.scope, None)}

get_commands(a) ==
    \E out \in OrderedLists(CommandsSelected(a), [id \in CommandsSelected(a) |-> 0]) :
        /\ last' = [Call("get_commands", a.user, 0, 0, 0) EXCEPT !.out = out]
        /\ UNCHANGED <<commands, executions, now, sess, project_contexts, detections>>

\* Every execution row, whatever its time.
AnalyticsWindowsUnbounded(days) == {DOMAIN executions}

\* The rows with executed_at >= utcnow() - days.  A row stamped with the very
\* reading the window starts at is inside or outside according to the part
\* of the reading the clock does not show.
AnalyticsWindows(days) ==
    LET inside == {e \in DOMAIN executions : executions[e].executed_at > now - days}
        edge   == {e \in DOMAIN executions : executions[e].executed_at = now - days}
    IN  {inside \cup X : X \in SUBSET edge}

\* The dictionary get_execution_analytics builds from the rows `window`.
Analytics(window, user, days) ==
    LET query  == {e \in window :
                      Truthy(user) => SqlEq(executions[e].user, user, None)}
        joined == {e \in query : executions[e].command_id \in DOMAIN commands}
        S      == {executions[e].command_id : e \in joined}
        count  == [id \in S |->
                      Cardinality({e \in joined : executions[e].command_id = id})]
        methods == {executions[e].execution_method : e \in query}
    IN  {[total_executions |-> Cardinality(query),
          unique_commands |-> Cardinality(S),
          average_executions_per_day |->
              IF days > 0 THEN <<Cardinality(query), days>> ELSE <<0, 1>>,
          most_used_commands |->
              [i \in DOMAIN SqlLimit(q, 10) |->
                  [name |-> commands[q[i]].name,
                   namespace |-> commands[q[i]].namespace,
                   execution_count |-> count[q[i]]]],
          execution_methods |->
              [m \in methods |->
                  Cardinality({e \in query : executions[e].execution_method = m})]] :
            q \in OrderedLists(S, count)}

get_execution_analytics(user, days) ==
    \E window \in AnalyticsWindows(days) :
      \E out \in Analytics(window, user, days) :
        /\ last' = [Call("get_execution_analytics", user, 0, 0, 0)
                        EXCEPT !.out = out]
        /\ UNCHANGED <<commands, executions, now, sess, project_contexts, detections>>

----------------------------------------------------------------------------
(* Project contexts *)

\* The characters of a namespace, to compare it with a directory name.
Chars(str) ==
    CASE str = "ns" -> <<"n", "s">>
      [] str = "n2" -> <<"n", "2">>
      [] str = "a"  -> <<"a">>
      [] str = "b"  -> <<"b">>
      [] str = ""   -> <<>>
      [] OTHER      -> <<"?">>

\* project_files in the order the dict is written: marker file, project type.
project_files ==
    << <<"package.json", "npm">>, <<"Cargo.toml", "cargo">>,
       <<"pyproject.toml", "python">>, <<"pom.xml", "maven">>,
       <<".git", "git">>, <<"requirements.txt", "pip">>,
       <<"go.mod", "go">>, <<"Dockerfile", "docker">> >>

\* The type of the last marker of the table that exists in the directory.
detected_type_last_marker(files) ==
    LET present == {i \in DOMAIN project_files : project_files[i][1] \in files}
    IN  IF present = {} THEN None
        ELSE project_files[CHOOSE i \in present : \A j \in present : i >= j][2]

\* The loop over project_files: the type of the first marker that exists in
\* the directory (None when none does).
detected_type(files) ==
    LET present == {i \in DOMAIN project_files : project_files[i][1] \in files}
    IN  IF present = {} THEN None
        ELSE project_files[CHOOSE i \in present : \A j \in present : i <= j][2]

\* Whether the manifest of the detected type yields a project name:
\* package.json with a "name", Cargo.toml with a line "name = ...".
manifest_named(fs) ==
    /\ detected_type(fs.files) \in {"npm", "cargo"}
    /\ fs.name /= NoneS

\* models.ProjectContext(...) for a directory seen for the first time.
new_context(dir_name, fs) ==
    [directory_pattern |-> dir_name,
     detected_namespace |-> IF manifest_named(fs) THEN fs.name ELSE dir_name,
     project_type |-> IF detected_type(fs.files) = None THEN "unknown"
                      ELSE detected_type(fs.files),
     confidence_score |-> IF manifest_named(fs) THEN 90
                          ELSE IF detected_type(fs.files) /= None THEN 80
                          ELSE 50,
     usage_count |-> 1,
     last_detected |-> now]

\* filter(directory_pattern == dir_name).first()
existing_context(dir_name) ==
    {i \in DOMAIN project_contexts :
        project_contexts[i].directory_pattern = dir_name}

\* The names .limit(5).all() can return for the commands of a namespace.
similar_commands(namespace) ==
    LET S == {id \in DOMAIN commands :
                 commands[id].namespace /= None
                 /\ Chars(commands[id].namespace) = namespace}
        score == [id \in S |-> 0]
    IN  {[i \in DOMAIN SqlLimit(q, 5) |-> commands[q[i]].name] :
            q \in OrderedLists(S, score)}

Counted(history, p) == IF p \in DOMAIN history THEN history[p] ELSE 0

Count(history, p) ==
    [q \in DOMAIN history \cup {p} |->
        IF q = p THEN Counted(history, p) + 1 ELSE history[q]]

\* existing_context.usage_count += 1; last_detected = utcnow(); commit.
seen_context(table, i) ==
    [table EXCEPT ![i].usage_count = @ + 1, ![i].last_detected = now]

\* fs is what the directory holds when it is probed: the marker files in it
\* and the project name its manifest gives (NoneS: none that parses).
detect_project_context(directory_path, user, fs) ==
    LET dir_name == LastSegment(directory_path) IN
    IF existing_context(dir_name) /= {}
    THEN \E i \in existing_context(dir_name) :
           \E names \in similar_commands(project_contexts[i].detected_namespace) :
            /\ project_contexts[i].usage_count < MaxDetect
            /\ project_contexts' = seen_context(project_contexts, i)
            /\ detections' = Count(detections, dir_name)
            /\ last' = [Call("detect_project_context", user, 0, i, 0)
                            EXCEPT !.out = names,
                                   !.confidence = Min(100,
                                        project_contexts[i].confidence_score + 5)]
            /\ UNCHANGED <<commands, executions, now, sess>>
    ELSE LET i == NextId(project_contexts) IN
            /\ project_contexts' =
                    Insert(project_contexts, i, new_context(dir_name, fs))
            /\ detections' = Count(detections, dir_name)
            /\ last' = [Call("detect_project_context", user, 0, i, 0)
                            EXCEPT !.is_new = TRUE,
                                   !.confidence =
                                        new_context(dir_name, fs).confidence_score]
            /\ UNCHANGED <<commands, executions, now, sess>>

----------------------------------------------------------------------------
(* Units of work that overlap *)

\* Each request runs in a session of its own (main.py get_db).  A session
\* reads committed rows into objects; `use_count += 1` adds to the value the
\* object holds; commit() flushes UPDATE ... SET use_count = <that value>
\* under the store's write lock and then commits.  Reads of one call are
\* taken as one step.

Sessions == {1, 2}

Idle == [pc |-> "idle", op |-> "none", result |-> 0, use_count |-> 0,
         last_used_at |-> NullTime]

WriteLocked == \E s \in DOMAIN sess : sess[s].pc = "flushed"

\* The SELECT of a call found `id` (0: nothing) and the object was updated
\* in memory.
SessLoad(s, op, id) ==
    /\ sess[s].pc = "idle"
    /\ sess' = [sess EXCEPT ![s] =
            IF id = 0
            THEN [Idle EXCEPT !.pc = "done", !.op = op]
            ELSE [pc |-> "loaded", op |-> op, result |-> id,
                  use_count |-> commands[id].use_count + 1,
                  last_used_at |-> now]]
    /\ UNCHANGED <<commands, executions, now, last, project_contexts, detections>>

sess_track_execution(s, command_id, user) ==
    SessLoad(s, "track_execution", GetCommandById(command_id, user))

sess_recall_command(s, a) ==
    LET k == RecallTier(a) IN
    IF k = 0 THEN SessLoad(s, "recall_command", 0)
    ELSE \E id \in First(RecallRows(k, a), ByCreated) :
            SessLoad(s, "recall_command", id)

sess_recall_command_by_name(s, a) ==
    LET k == ByNameTier(a) IN
    IF k = 0 THEN SessLoad(s, "recall_command_by_name", 0)
    ELSE \E id \in ByNameFirst(k, ByNameRows(k, a)) :
            SessLoad(s, "recall_command_by_name", id)

\* flush: the UPDATE takes the write lock.
sess_flush(s) ==
    /\ sess[s].pc = "loaded"
    /\ ~WriteLocked
    /\ sess' = [sess EXCEPT ![s].pc = "flushed"]
    /\ UNCHANGED <<commands, executions, now, last, project_contexts, detections>>

\* COMMIT: the row the UPDATE wrote becomes the committed row.
sess_commit(s) ==
    /\ sess[s].pc = "flushed"
    /\ commands' = [commands EXCEPT
            ![sess[s].result].use_count = sess[s].use_count,
            ![sess[s].result].last_used_at = sess[s].last_used_at]
    /\ sess' = [sess EXCEPT ![s].pc = "done"]
    /\ last' = Call(sess[s].op, None, 0, sess[s].result, 0)
    /\ UNCHANGED <<executions, now, project_contexts, detections>>

\* Detections that overlap.  The session of a detect_project_context call
\* holds the object it read, or the one it is about to add.
NoContext ==
    [directory_pattern |-> <<>>, detected_namespace |-> <<>>,
     project_type |-> "unknown", confidence_score |-> 0, usage_count |-> 0,
     last_detected |-> NullTime]

CtxIdle == [pc |-> "idle", id |-> 0, row |-> NoContext]

CtxWriteLocked == \E s \in DOMAIN sess : sess[s].pc = "flushed"

\* The SELECT of the call, and the change made to the object in memory.
ctx_begin(s, directory_path, fs) ==
    LET dir_name == LastSegment(directory_path) IN
    /\ sess[s].pc = "idle"
    /\ Counted(detections, dir_name) < MaxDetect
    /\ IF existing_context(dir_name) /= {}
       THEN \E i \in existing_context(dir_name) :
                sess' = [sess EXCEPT ![s] =
                    [pc |-> "loaded", id |-> i,
                     row |-> seen_context(project_contexts, i)[i]]]
       ELSE sess' = [sess EXCEPT ![s] =
                    [pc |-> "adding", id |-> 0,
                     row |-> new_context(dir_name, fs)]]
    /\ UNCHANGED <<commands, executions, now, last, project_contexts, detections>>

\* flush: the UPDATE or INSERT takes the write lock; an INSERT of a pattern
\* that is stored by now fails on the unique index and the call ends in an
\* error.
ctx_flush(s) ==
    /\ sess[s].pc \in {"loaded", "adding"}
    /\ ~CtxWriteLocked
    /\ sess' = [sess EXCEPT ![s].pc =
            IF /\ sess[s].pc = "adding"
               /\ existing_context(sess[s].row.directory_pattern) /= {}
            THEN "failed" ELSE "flushed"]
    /\ UNCHANGED <<commands, executions, now, last, project_contexts, detections>>

\* COMMIT: the row written becomes the committed row and the call returns.
ctx_commit(s) ==
    LET i == IF sess[s].id = 0 THEN NextId(project_contexts) ELSE sess[s].id IN
    /\ sess[s].pc = "flushed"
    /\ project_contexts' = Insert(project_contexts, i, sess[s].row)
    /\ detections' = Count(detections, sess[s].row.directory_pattern)
    /\ sess' = [sess EXCEPT ![s].pc = "done"]
    /\ last' = [Call("detect_project_context", None, 0, i, 0)
                    EXCEPT !.is_new = (sess[s].id = 0)]
    /\ UNCHANGED <<commands, executions, now>>

\* get_db's finally: the session is closed and the next request gets a new one.
ctx_close(s) ==
    /\ sess[s].pc \in {"done", "failed"}
    /\ sess' = [sess EXCEPT ![s] = CtxIdle]
    /\ UNCHANGED <<commands, executions, now, last, project_contexts, detections>>

\* Creations that overlap.  The session of a create_command call holds the
\* arguments after its existence check found nothing, and from the INSERT on
\* the row and the identifier the store gave it.
NoCommand ==
    [command_string |-> <<>>, name |-> None, namespace |-> None,
     user |-> None, cwd |-> NoneS, hostname |-> None, scope |-> None,
     created_at |-> NullTime, last_used_at |-> NullTime, use_count |-> 0]

CreateIdle == [pc |-> "idle", id |-> 0, row |-> NoCommand]

CreateWriteLocked == \E s \in DOMAIN sess : sess[s].pc = "flushed"

\* The SELECT for a row with the same seven attributes: the call returns
\* the row it finds, or goes on to add one.
create_begin(s, cmd) ==
    /\ sess[s].pc = "idle"
    /\ IF ExistingCommand(cmd) /= {}
       THEN \E id \in ExistingCommand(cmd) :
                /\ sess' = [sess EXCEPT ![s] = [CreateIdle EXCEPT !.pc = "done"]]
                /\ last' = [Call("create_command", cmd.user, 0, id, 0)
                                EXCEPT !.is_new = FALSE]
       ELSE /\ sess' = [sess EXCEPT ![s] =
                    [pc |-> "adding", id |-> 0,
                     row |-> [NewCommand(cmd) EXCEPT !.created_at = NullTime]]]
            /\ last' = last
    /\ UNCHANGED <<commands, executions, now, project_contexts, detections>>

\* flush: the INSERT takes the write lock; the table has no unique index
\* over the seven columns, so the INSERT never fails.  The store assigns the
\* identifier and the creation time.
create_flush(s) ==
    /\ sess[s].pc = "adding"
    /\ ~CreateWriteLocked
    /\ NextId(commands) <= MaxCmds
    /\ sess' = [sess EXCEPT ![s] =
            [pc |-> "flushed", id |-> NextId(commands),
             row |-> [sess[s].row EXCEPT !.created_at = now]]]
    /\ UNCHANGED <<commands, executions, now, last, project_contexts, detections>>

\* COMMIT: the row becomes a committed row and the call returns it as new.
create_commit(s) ==
    /\ sess[s].pc = "flushed"
    /\ commands' = Insert(commands, sess[s].id, sess[s].row)
    /\ sess' = [sess EXCEPT ![s].pc = "done"]
    /\ last' = [Call("create_command", sess[s].row.user, 0, sess[s].id, 0)
                    EXCEPT !.is_new = TRUE]
    /\ UNCHANGED <<executions, now, project_contexts, detections>>

\* get_db's finally: the session is closed and the next request gets a new one.
create_close(s) ==
    /\ sess[s].pc = "done"
    /\ sess' = [sess EXCEPT ![s] = CreateIdle]
    /\ UNCHANGED <<commands, executions, now, last, project_contexts, detections>>

----------------------------------------------------------------------------
(* Inputs *)

T1 == <<"l", "s">>
T2 == <<"p", "s">>

CwdA  == <<"/", "a">>
CwdB  == <<"/", "b">>
CwdXA == <<"/", "x", "/", "A">>

CommandCreate(text, name, namespace, user, cwd, hostname, scope) ==
    [command_string |-> text, name |-> name, namespace |-> namespace,
     user |-> user, cwd |-> cwd, hostname |-> hostname, scope |-> scope]

CallerUsers == {None, "u1", "u2"}

\* Spec: the operations addressed by identifier.
CreateInputs ==
    {CommandCreate(T1, "c", "ns", "u1", CwdA, "h1", PERSONAL),
     CommandCreate(T1, "c", "ns", "u1", CwdA, "h1", "team"),
     CommandCreate(T1, "c", "ns", None, NoneS, None, PERSONAL)}
UpdateTexts  == {T1, T2}
RenameInputs == {<<"c", "ns">>, <<"d", "ns">>}

\* SpecRecall: recall_command.
RecallInputs ==
    {CommandCreate(T1, "c", "ns", "u1", CwdA, "h1", PERSONAL),
     CommandCreate(T1, "c", "ns", "u1", CwdB, "h1", PERSONAL),
     CommandCreate(T1, "c", "ns", "u2", CwdA, "h1", "team"),
     CommandCreate(T1, "c", "ns", "u2", CwdB, "h1", "team"),
     CommandCreate(T1, "c", "ns", "u2", CwdB, "h2", PERSONAL),
     CommandCreate(T1, "c", "n2", "u1", CwdA, "h1", PERSONAL),
     CommandCreate(T1, "c", "ns", None, NoneS, None, PERSONAL)}
RecallArgs ==
    [name : {"c", "d"}, namespace : {"ns"}, user : {None, "u1", "u2"},
     hostname : {None, "h1"}, cwd : {NoneS, CwdA}]

\* SpecByName: recall_command_by_name.
ByNameInputs ==
    {CommandCreate(T1, "c", "ns", "u1", CwdA, "h1", PERSONAL),
     CommandCreate(T1, "c", "n2", "u1", CwdA, "h1", PERSONAL),
     CommandCreate(T1, "c", "ns", "u1", CwdB, "h1", PERSONAL),
     CommandCreate(T1, "c", "n2", "u2", CwdXA, "h2", PERSONAL),
     CommandCreate(T1, "c", "ns", "u2", CwdB, "h2", "team"),
     CommandCreate(T1, "c", "n2", None, NoneS, None, PERSONAL),
     CommandCreate(T1, "d", "ns", "u1", CwdA, "h1", PERSONAL)}
ByNameArgs ==
    [name : {"c"}, user : {None, "u1"}, hostname : {None, "h1"},
     cwd : {NoneS, CwdA}, namespace_hint : {None, "ns"},
     scope_hint : {None, "team"}]

\* SpecUsage: everything that updates the usage statistics.
UsageInputs ==
    {CommandCreate(T1, "c", "ns", "u1", CwdA, "h1", PERSONAL),
     CommandCreate(T1, "c", "ns", "u2", CwdB, "h1", PERSONAL),
     CommandCreate(T1, "c", "ns", "u2", CwdA, "h1", "team")}
UsageRecallArgs ==
    [name : {"c", "d"}, namespace : {"ns"}, user : {"u1"},
     hostname : {None, "h1"}, cwd : {NoneS, CwdA}]
UsageByNameArgs ==
    [name : {"c"}, user : {None, "u1"}, hostname : {"h1"},
     cwd : {NoneS, CwdA}, namespace_hint : {None}, scope_hint : {None, "team"}]

----------------------------------------------------------------------------
(* Specifications *)

Init ==
    /\ commands = EmptyTable
    /\ executions = EmptyTable
    /\ now = 0
    /\ last = NoCall
    /\ sess = NoSessions
    /\ project_contexts = EmptyTable
    /\ detections = NoDetections

Next ==
    \/ Tick
    \/ \E cmd \in CreateInputs : create_command(cmd)
    \/ \E id \in Ids, u \in CallerUsers, t \in UpdateTexts :
            update_command(id, u, t)
    \/ \E id \in Ids, u \in CallerUsers, r \in RenameInputs :
            rename_command(id, u, r[1], r[2])
    \/ \E id \in Ids, u \in CallerUsers : delete_command(id, u)
    \/ \E id \in Ids, u \in CallerUsers : get_command_by_id(id, u)
    \/ \E id \in Ids, u \in CallerUsers : track_execution(id, u)

Spec == Init /\ [][Next]_vars

NextRecall ==
    \/ Tick
    \/ \E cmd \in RecallInputs : create_command(cmd)
    \/ \E a \in RecallArgs : recall_command(a)

SpecRecall == Init /\ [][NextRecall]_vars

NextByName ==
    \/ Tick
    \/ \E cmd \in ByNameInputs : create_command(cmd)
    \/ \E a \in ByNameArgs : recall_command_by_name(a)

SpecByName == Init /\ [][NextByName]_vars

NextUsage ==
    \/ Tick
    \/ \E cmd \in UsageInputs : create_command(cmd)
    \/ \E a \in UsageRecallArgs : recall_command(a)
    \/ \E a \in UsageByNameArgs : recall_command_by_name(a)
    \/ \E id \in Ids, u \in CallerUsers : track_execution(id, u)

SpecUsage == Init /\ [][NextUsage]_vars

\* SpecConc: two requests at a time.
ConcInputs ==
    {CommandCreate(T1, "c", "ns", "u1", CwdA, "h1", PERSONAL),
     CommandCreate(T1, "c", "n2", "u2", CwdB, "h1", "team")}
ConcRecallArgs ==
    [name : {"c"}, namespace : {"ns", "n2"}, user : {"u1"},
     hostname : {"h1"}, cwd : {CwdA}]
ConcByNameArgs ==
    [name : {"c"}, user : {"u1"}, hostname : {None}, cwd : {NoneS},
     namespace_hint : {None, "n2"}, scope_hint : {None}]

InitConc ==
    /\ commands = EmptyTable
    /\ executions = EmptyTable
    /\ now = 0
    /\ last = NoCall
    /\ sess = [s \in Sessions |-> Idle]
    /\ project_contexts = EmptyTable
    /\ detections = NoDetections

NextConc ==
    \/ Tick
    \/ \E cmd \in ConcInputs : create_command(cmd)
    \/ \E s \in Sessions, id \in Ids, u \in {"u1"} :
            sess_track_execution(s, id, u)
    \/ \E s \in Sessions, a \in ConcRecallArgs : sess_recall_command(s, a)
    \/ \E s \in Sessions, a \in ConcByNameArgs :
            sess_recall_command_by_name(s, a)
    \/ \E s \in Sessions : sess_flush(s)
    \/ \E s \in Sessions : sess_commit(s)

SpecConc == InitConc /\ [][NextConc]_vars

\* SpecSuggest: get_suggestions_for_context over commands and executions.
SuggestInputs ==
    {CommandCreate(T1, "c", "ns", "u1", CwdA, "h1", PERSONAL),
     CommandCreate(T2, "c", "ns", "u1", CwdA, "h1", PERSONAL),
     CommandCreate(T1, "c", "ns", "u2", CwdA, "h1", "team")}
ExecutionInputs ==
    [command_id : Ids, user : {None}, hostname : {None},
     cwd : {CwdA, CwdB}, execution_method : {"name"}]
SuggestArgs ==
    [user : {None, "u1"}, hostname : {None}, cwd : {NoneS, CwdA, CwdXA},
     project_type : {None}, limit : 0..MaxLimit]

NextSuggest ==
    \/ \E cmd \in SuggestInputs : create_command(cmd)
    \/ \E e \in ExecutionInputs : create_execution_history(e)
    \/ \E id \in Ids, u \in {"u1"} : track_execution(id, u)
    \/ \E a \in SuggestArgs : get_suggestions_for_context(a)

SpecSuggest == Init /\ [][NextSuggest]_vars

\* SpecSimilar: get_command_similarity.
T3 == <<"l", "s", " ", "A">>
T4 == <<"a", " ", "b">>

SimilarInputs ==
    {CommandCreate(T3, "c", "ns", "u1", CwdA, "h1", PERSONAL),
     CommandCreate(T4, "d", "ns", "u1", CwdA, "h1", PERSONAL),
     CommandCreate(T4, "d", "n2", "u2", CwdA, "h1", "team"),
     CommandCreate(T2, "e", "n2", "u2", CwdA, "h1", "team")}
Limits == 0 .. MaxLimit

NextSimilar ==
    \/ Tick
    \/ \E cmd \in SimilarInputs : create_command(cmd)
    \/ \E id \in Ids, u \in {"u1", "u2"} : track_execution(id, u)
    \/ \E id \in Ids \cup {MaxCmds + 1}, limit \in Limits :
            get_command_similarity(id, limit)

SpecSimilar == Init /\ [][NextSimilar]_vars

\* SpecContext: detect_project_context, one call at a time.
CwdYA == <<"/", "y", "/", "a">>

ContextInputs ==
    {CommandCreate(T1, "c", "a", "u1", CwdA, "h1", PERSONAL),
     CommandCreate(T1, "d", "ns", "u1", CwdA, "h1", PERSONAL)}
Directories == {CwdA, CwdYA, CwdB}
Probes ==
    [files : {{}, {".git"}, {"package.json", ".git"}},
     name : {NoneS, <<"n", "s">>}]

NextContext ==
    \/ Tick
    \/ \E cmd \in ContextInputs : create_command(cmd)
    \/ \E d \in Directories, fs \in Probes :
            detect_project_context(d, "u1", fs)

SpecContext == Init /\ [][NextContext]_vars

\* SpecCtxConc: two detect_project_context calls at a time.
InitCtxConc ==
    /\ commands = EmptyTable
    /\ executions = EmptyTable
    /\ now = 0
    /\ last = NoCall
    /\ sess = [s \in Sessions |-> CtxIdle]
    /\ project_contexts = EmptyTable
    /\ detections = NoDetections

ConcDirectories == {CwdA, CwdYA}
ConcProbes ==
    {[files |-> {}, name |-> NoneS], [files |-> {".git"}, name |-> NoneS]}

NextCtxConc ==
    \/ Tick
    \/ \E s \in Sessions, d \in ConcDirectories, fs \in ConcProbes :
            ctx_begin(s, d, fs)
    \/ \E s \in Sessions : ctx_flush(s)
    \/ \E s \in Sessions : ctx_commit(s)
    \/ \E s \in Sessions : ctx_close(s)

SpecCtxConc == InitCtxConc /\ [][NextCtxConc]_vars

\* SpecHistory: the execution history next to everything that reads or
\* writes the store.
HistoryInputs ==
    {CommandCreate(T1, "c", "ns", "u1", CwdA, "h1", PERSONAL),
     CommandCreate(T4, "c", "ns", "u2", CwdA, "h1", "team")}
HistoryExecutions ==
    [command_id : Ids, user : {"u1"}, hostname : {"h1"},
     cwd : {CwdA}, execution_method : {"id"}]
HistoryRecallArgs ==
    [name : {"c"}, namespace : {"ns"}, user : {"u1"},
     hostname : {"h1"}, cwd : {CwdA}]
HistoryByNameArgs ==
    [name : {"c"}, user : {"u1"}, hostname : {None}, cwd : {NoneS},
     namespace_hint : {None}, scope_hint : {None}]
HistorySuggestArgs ==
    [user : {"u1"}, hostname : {None}, cwd : {CwdA},
     project_type : {None}, limit : {MaxLimit}]
ListArgs ==
    [q : {NoneS, <<"S">>}, namespace : {None}, user : {"u1"}, scope : {None}]
Days == {0, 1}

NextHistory ==
    \/ \E cmd \in HistoryInputs : create_command(cmd)
    \/ \E e \in HistoryExecutions : create_execution_history(e)
    \/ \E id \in Ids, u \in {"u1", "u2"} : delete_command(id, u)
    \/ \E id \in Ids, u \in {"u1"} : track_execution(id, u)
    \/ \E a \in HistoryRecallArgs : recall_command(a)
    \/ \E a \in HistoryByNameArgs : recall_command_by_name(a)
    \/ \E d \in {CwdA}, fs \in {[files |-> {}, name |-> NoneS]} :
            detect_project_context(d, "u1", fs)
    \/ \E id \in Ids, u \in {"u1"} : get_command_by_id(id, u)
    \/ \E a \in ListArgs : get_commands(a)
    \/ \E id \in Ids : get_command_similarity(id, MaxLimit)
    \/ \E a \in HistorySuggestArgs : get_suggestions_for_context(a)
    \/ \E days \in Days : get_execution_analytics("u1", days)

SpecHistory == Init /\ [][NextHistory]_vars

\* SpecAnalytics: get_execution_analytics over rows of two users and two
\* execution methods, some of them of commands that are not stored.
AnalyticsInputs ==
    {CommandCreate(T1, "c", "ns", "u1", CwdA, "h1", PERSONAL),
     CommandCreate(T4, "d", "ns", "u2", CwdA, "h1", "team")}
AnalyticsExecutions ==
    [command_id : Ids, user : {"u1", "u2"}, hostname : {"h1"},
     cwd : {CwdA}, execution_method : {"id", "name"}]
AnalyticsUsers == {None, "u1"}

NextAnalytics ==
    \/ Tick
    \/ \E cmd \in AnalyticsInputs : create_command(cmd)
    \/ \E e \in AnalyticsExecutions : create_execution_history(e)
    \/ \E u \in AnalyticsUsers, days \in Days : get_execution_analytics(u, days)

SpecAnalytics == Init /\ [][NextAnalytics]_vars

\* SpecDirectory: the directory tier of recall_command_by_name.
CwdWild == <<"_">>

DirectoryInputs ==
    {CommandCreate(T1, "c", "ns", "u1", CwdA, "h1", PERSONAL),
     CommandCreate(T1, "c", "ns", "u2", CwdXA, "h2", PERSONAL),
     CommandCreate(T1, "c", "ns", "u1", CwdB, "h2", PERSONAL),
     CommandCreate(T1, "c", "ns", "u2", NoneS, "h2", "team")}
DirectoryArgs ==
    [name : {"c"}, user : {None, "u1"}, hostname : {None, "h1"},
     cwd : {NoneS, CwdA, CwdXA, CwdWild}, namespace_hint : {None},
     scope_hint : {None}]

NextDirectory ==
    \/ Tick
    \/ \E cmd \in DirectoryInputs : create_command(cmd)
    \/ \E id \in Ids, u \in {"u1", "u2"} : track_execution(id, u)
    \/ \E a \in DirectoryArgs : recall_command_by_name(a)

SpecDirectory == Init /\ [][NextDirectory]_vars

\* SpecOverlap: get_command_similarity over a store of five commands, enough
\* for a namespace that does not fill the list and for commands of equal
\* and of different overlap with the base command.
T5 == <<"A", " ", "l", "s">>

OverlapInputs ==
    << CommandCreate(T3, "c", "ns", "u1", CwdA, "h1", PERSONAL),
       CommandCreate(T4, "d", "n2", "u2", CwdA, "h1", "team"),
       CommandCreate(T1, "e", "n2", "u2", CwdA, "h1", "team"),
       CommandCreate(T2, "f", "ns", "u1", CwdA, "h1", PERSONAL),
       CommandCreate(T5, "g", "n2", "u2", CwdA, "h1", "team") >>
OverlapIds == DOMAIN OverlapInputs
\* The commands that get used: those of the namespace with three commands.
OverlapTracked == {id \in OverlapIds : OverlapInputs[id].namespace = "n2"}

\* The store after one create_command for each of OverlapInputs.
InitOverlap ==
    /\ now = 0
    /\ commands = [id \in OverlapIds |-> NewCommand(OverlapInputs[id])]
    /\ executions = EmptyTable
    /\ last = NoCall
    /\ sess = NoSessions
    /\ project_contexts = EmptyTable
    /\ detections = NoDetections

NextOverlap ==
    \/ \E id \in OverlapTracked : track_execution(id, OverlapInputs[id].user)
    \/ \E id \in OverlapIds, limit \in 0 .. MaxSimilar :
            get_command_similarity(id, limit)

SpecOverlap == InitOverlap /\ [][NextOverlap]_vars

\* SpecDetect: detect_project_context over directories with one marker file,
\* with several, and with none.
DetectInputs == {CommandCreate(T1, "c", "a", "u1", CwdA, "h1", PERSONAL)}
DetectProbes ==
    [files : {{}, {".git"}, {"package.json", ".git"},
              {"Cargo.toml", "pyproject.toml"},
              {"pyproject.toml", "requirements.txt"},
              {"Dockerfile", "go.mod"}},
     name : {NoneS, <<"n", "s">>}]

NextDetect ==
    \/ \E cmd \in DetectInputs : create_command(cmd)
    \/ \E d \in Directories, fs \in DetectProbes :
            detect_project_context(d, "u1", fs)

SpecDetect == Init /\ [][NextDetect]_vars

\* SpecCreateConc: two create_command calls at a time.
ConcCreateInputs ==
    {CommandCreate(T1, "c", "ns", "u1", CwdA, "h1", PERSONAL),
     CommandCreate(T1, "c", "ns", None, NoneS, None, "team")}

InitCreateConc ==
    /\ commands = EmptyTable
    /\ executions = EmptyTable
    /\ now = 0
    /\ last = NoCall
    /\ sess = [s \in Sessions |-> CreateIdle]
    /\ project_contexts = EmptyTable
    /\ detections = NoDetections

NextCreateConc ==
    \/ Tick
    \/ \E s \in Sessions, cmd \in ConcCreateInputs : create_begin(s, cmd)
    \/ \E s \in Sessions : create_flush(s)
    \/ \E s \in Sessions : create_commit(s)
    \/ \E s \in Sessions : create_close(s)

SpecCreateConc == InitCreateConc /\ [][NextCreateConc]_vars

----------------------------------------------------------------------------
(* Claims *)

SameNameAndNamespace(c, a) == c.name = a.name /\ c.namespace = a.namespace

\* The tiers of recall_command as the specification lists them.
C1_InTier(k, c, a) ==
    /\ SameNameAndNamespace(c, a)
    /\ CASE k = 1 -> /\ c.scope = PERSONAL /\ c.user = a.user
                     /\ c.hostname = a.hostname /\ c.cwd = a.cwd
         [] k = 2 -> c.scope = PERSONAL /\ c.user = a.user /\ c.hostname = a.hostname
         [] k = 3 -> c.scope /= PERSONAL /\ c.hostname = a.hostname /\ c.cwd = a.cwd
         [] k = 4 -> c.scope /= PERSONAL /\ c.hostname = a.hostname
         [] OTHER -> TRUE

C1_Tier(k, a) == {id \in DOMAIN commands : C1_InTier(k, commands[id], a)}

C1_Holds(a) ==
    LET nonEmpty == {k \in 1..5 : C1_Tier(k, a) /= {}} IN
    IF nonEmpty = {}
    THEN last'.result = 0
    ELSE \E k \in nonEmpty :
            /\ \A j \in nonEmpty : k <= j
            /\ last'.result \in C1_Tier(k, a)

\* C1: recall_command returns a command of the first non-empty tier in the
\* order personal+user+hostname+cwd, personal+user+hostname,
\* shared+hostname+cwd, shared+hostname, any command of that name and
\* namespace; never a command of a later tier while an earlier tier has a
\* candidate, whatever the use counts.
C1_RecallFirstTier ==
    [][last'.op = "recall_command" =>
            \A a \in RecallArgs :
                (a.user = last'.user /\ recall_command(a)) => C1_Holds(a)]_vars

\* A personal command was recalled although a command of the shared tiers,
\* recalled once before, had the higher use count.
C1_Witness ==
    /\ last.op = "recall_command"
    /\ last.result \in DOMAIN commands
    /\ commands[last.result].scope = PERSONAL
    /\ commands[last.result].user = last.user
    /\ commands[last.result].use_count = 1
    /\ \E j \in DOMAIN commands :
          /\ commands[j].scope /= PERSONAL
          /\ commands[j].name = commands[last.result].name
          /\ commands[j].namespace = commands[last.result].namespace
          /\ commands[j].use_count = 1

StatsUnchanged ==
    /\ DOMAIN commands' = DOMAIN commands
    /\ \A id \in DOMAIN commands :
          /\ commands'[id].use_count = commands[id].use_count
          /\ commands'[id].last_used_at = commands[id].last_used_at

C2_Effect ==
    IF last'.result = 0
    THEN StatsUnchanged
    ELSE /\ last'.result \in DOMAIN commands
         /\ commands'[last'.result].use_count =
                commands[last'.result].use_count + 1
         /\ commands'[last'.result].last_used_at >=
                commands[last'.result].last_used_at

IdOperation(id, u) ==
    \/ get_command_by_id(id, u)
    \/ track_execution(id, u)
    \/ delete_command(id, u)
    \/ \E t \in UpdateTexts : update_command(id, u, t)
    \/ \E r \in RenameInputs : rename_command(id, u, r[1], r[2])

IdOperations ==
    {"get_command_by_id", "track_execution", "delete_command",
     "update_command", "rename_command"}

PersonalOf(id, owner) ==
    /\ id \in DOMAIN commands
    /\ commands[id].scope = PERSONAL
    /\ owner /= None
    /\ commands[id].user = owner

\* C4: for a personal-scope command owned by A, get_command_by_id,
\* update_command, rename_command, delete_command and track_execution called
\* by a user B other than A return not-found, as they do for an identifier
\* that is not stored, and leave the command and the store unchanged.
C4_OwnershipIsolation ==
    [][last'.op \in IdOperations =>
        \A id \in Ids, B \in CallerUsers :
            /\ ( /\ \E A \in CallerUsers \ {B} : PersonalOf(id, A)
                 /\ IdOperation(id, B) )
                => (last'.result = 0 /\ commands' = commands
                                     /\ executions' = executions)
            /\ (id \notin DOMAIN commands /\ IdOperation(id, B))
                => (last'.result = 0 /\ commands' = commands
                                     /\ executions' = executions)]_vars

\* Another user asked to delete a personal command, which is still stored.
C4_Witness ==
    /\ last.op = "delete_command"
    /\ last.result = 0
    /\ last.user /= None
    /\ \E A \in CallerUsers \ {last.user} : PersonalOf(last.id, A)

\* C5: a command whose scope is not "personal" is returned by
\* get_command_by_id, and counted by track_execution (use_count + 1), for
\* every caller, owner or not.
C5_SharedAccess ==
    [][last'.op \in {"get_command_by_id", "track_execution"} =>
        \A id \in Ids, u \in CallerUsers :
            (id \in DOMAIN commands /\ commands[id].scope /= PERSONAL) =>
                /\ get_command_by_id(id, u) => last'.result = id
                /\ track_execution(id, u) =>
                      /\ last'.result = id
                      /\ commands'[id].use_count = commands[id].use_count + 1]_vars

\* A user who does not own a shared command had its execution tracked.
C5_Witness ==
    /\ last.op = "track_execution"
    /\ last.result \in DOMAIN commands
    /\ commands[last.result].scope /= PERSONAL
    /\ commands[last.result].user /= last.user
    /\ commands[last.result].use_count = 1

WithTuple(table, cmd) ==
    {id \in DOMAIN table : SevenTuple(table[id]) = SevenTuple(cmd)}

\* C6: create_command called twice with the same 7-tuple (absent owner, cwd
\* or hostname included) stores one record: the first call returns
\* is_new = True, the second returns the first call's identifier with
\* is_new = False and changes nothing in the store.
C6_CreateIdempotent ==
    [][last'.op = "create_command" =>
        \A cmd \in CreateInputs : create_command(cmd) =>
            /\ WithTuple(commands, cmd) = {} =>
                  /\ last'.is_new
                  /\ last'.result \notin DOMAIN commands
                  /\ WithTuple(commands', cmd) = {last'.result}
            /\ ( /\ last.op = "create_command" /\ last.is_new
                 /\ last.result \in WithTuple(commands, cmd) ) =>
                  /\ ~last'.is_new
                  /\ last'.result = last.result
                  /\ commands' = commands
                  /\ executions' = executions
                  /\ WithTuple(commands', cmd) = {last.result}]_vars

\* The second of two calls that gave neither owner, cwd nor hostname
\* returned the stored record.
C6_Witness ==
    /\ last.op = "create_command"
    /\ ~last.is_new
    /\ last.result \in DOMAIN commands
    /\ commands[last.result].user = None
    /\ commands[last.result].cwd = NoneS
    /\ commands[last.result].hostname = None
    /\ Cardinality(DOMAIN commands) = 1

Absent(x)  == x = None
AbsentS(s) == s = NoneS

\* An input the k-th tier of recall_command_by_name requires is absent.
C7_Skipped(k, a) ==
    CASE k = 1 -> \/ Absent(a.user) \/ Absent(a.hostname)
                  \/ AbsentS(a.cwd) \/ Absent(a.namespace_hint)
      [] k = 2 -> Absent(a.user) \/ Absent(a.hostname) \/ Absent(a.namespace_hint)
      [] k = 3 -> Absent(a.user) \/ Absent(a.hostname) \/ AbsentS(a.cwd)
      [] k = 4 -> Absent(a.user) \/ Absent(a.hostname)
      [] k = 5 -> AbsentS(a.cwd)
      [] k = 6 -> Absent(a.namespace_hint)
      [] k = 7 -> Absent(a.scope_hint)
      [] k = 8 -> Absent(a.user)
      [] OTHER -> FALSE

\* The commands the k-th tier admits.
C7_InTier(k, c, a) ==
    /\ c.name = a.name
    /\ CASE k = 1 -> /\ c.scope = PERSONAL /\ c.user = a.user
                     /\ c.hostname = a.hostname /\ c.cwd = a.cwd
                     /\ c.namespace = a.namespace_hint
         [] k = 2 -> /\ c.scope = PERSONAL /\ c.user = a.user
                     /\ c.hostname = a.hostname
                     /\ c.namespace = a.namespace_hint
         [] k = 3 -> /\ c.scope = PERSONAL /\ c.user = a.user
                     /\ c.hostname = a.hostname /\ c.cwd = a.cwd
         [] k = 4 -> /\ c.scope = PERSONAL /\ c.user = a.user
                     /\ c.hostname = a.hostname
         [] k = 5 -> /\ SqlLike(c.cwd, <<"%">> \o LastSegment(a.cwd) \o <<"%">>)
                     /\ (~Absent(a.user) => c.user = a.user)
         [] k = 6 -> c.namespace = a.namespace_hint
         [] k = 7 -> c.scope = a.scope_hint
         [] k = 8 -> c.user = a.user
         [] OTHER -> TRUE

C7_Tier(k, a) ==
    IF C7_Skipped(k, a)
    THEN {}
    ELSE {id \in DOMAIN commands : C7_InTier(k, commands[id], a)}

\* c1 was used at least as recently as c2, a command never used being last.
C7_UsedNoEarlier(c1, c2) ==
    \/ c2.last_used_at = NullTime
    \/ c1.last_used_at /= NullTime /\ c1.last_used_at >= c2.last_used_at

\* c1 ranks at least as high as c2 in the k-th tier.
C7_RanksNoLower(k, c1, c2) ==
    CASE k \in {1, 2} ->
            \/ ~C7_UsedNoEarlier(c2, c1)
            \/ /\ C7_UsedNoEarlier(c1, c2) /\ C7_UsedNoEarlier(c2, c1)
               /\ c1.created_at >= c2.created_at
      [] k \in {3, 4, 9} ->
            \/ c1.use_count > c2.use_count
            \/ c1.use_count = c2.use_count /\ C7_UsedNoEarlier(c1, c2)
      [] OTHER -> c1.use_count >= c2.use_count

C7_Holds(a) ==
    LET nonEmpty == {k \in 1..9 : C7_Tier(k, a) /= {}} IN
    IF nonEmpty = {}
    THEN last'.result = 0
    ELSE \E k \in nonEmpty :
            /\ \A j \in nonEmpty : k <= j
            /\ last'.result \in C7_Tier(k, a)
            /\ \A j \in C7_Tier(k, a) :
                  C7_RanksNoLower(k, commands[last'.result], commands[j])

C8_NotFoundIffNoName ==
    [][last'.op = "recall_command_by_name" =>
        \A a \in ByNameArgs :
          (a.user = last'.user /\ recall_command_by_name(a)) =>
            /\ last'.result = 0 <=>
                  (\A id \in DOMAIN commands : commands[id].name /= a.name)
            /\ last'.result /= 0 =>
                  /\ last'.result \in DOMAIN commands
                  /\ commands[last'.result].name = a.name
                  /\ commands'[last'.result].use_count =
                        commands[last'.result].use_count + 1
                  /\ commands'[last'.result].last_used_at = now]_vars

\* A call without a user found a command through the last tier.
C8_Witness ==
    /\ last.op = "recall_command_by_name"
    /\ last.user = None
    /\ last.tier = 9
    /\ last.result \in DOMAIN commands
    /\ commands[last.result].use_count = 1

OthersPersonal(id, user) ==
    /\ id \in DOMAIN commands
    /\ commands[id].scope = PERSONAL
    /\ commands[id].user /= user

\* C9 as claimed: neither recall_command nor recall_command_by_name returns
\* a personal-scope command whose owner is not the caller's user.
C9_OwnerOnly ==
    [][/\ last'.op = "recall_command" =>
            \A a \in UsageRecallArgs : recall_command(a) =>
                ~OthersPersonal(last'.result, a.user)
       /\ last'.op = "recall_command_by_name" =>
            \A a \in UsageByNameArgs : recall_command_by_name(a) =>
                ~OthersPersonal(last'.result, a.user)]_vars

\* C9 as amended: a personal-scope command of another owner is returned
\* only by a tier that does not compare the owner, and only when the tiers
\* before it have no candidate: by recall_command as its global fallback
\* (tier 5, tiers 1-4 empty); by recall_command_by_name from tier 5 when no
\* user is given, or from tier 6, 7 or 9 (tiers 1-4 empty).
C9_OwnerOnlyBeforeFallback ==
    [][/\ last'.op = "recall_command" =>
            \A a \in UsageRecallArgs :
                (recall_command(a) /\ OthersPersonal(last'.result, a.user)) =>
                    /\ last'.tier = 5
                    /\ \A k \in 1..4 : C1_Tier(k, a) = {}
       /\ last'.op = "recall_command_by_name" =>
            \A a \in UsageByNameArgs :
                (recall_command_by_name(a)
                    /\ OthersPersonal(last'.result, a.user)) =>
                    /\ last'.tier \in {5, 6, 7, 9}
                    /\ last'.tier = 5 => Absent(a.user)
                    /\ \A k \in 1..4 : C7_Tier(k, a) = {}]_vars

\* The global fallback of recall_command returned a personal command of
\* another owner.
C9_Witness ==
    /\ last.op = "recall_command"
    /\ last.tier = 5
    /\ last.user /= None
    /\ OthersPersonal(last.result, last.user)

\* C3 as claimed: when two recalls or track_execution calls of one command
\* overlap, both succeed and no increment is lost: once both have
\* committed, the command, created with use_count 0 and used by nothing
\* else, has use_count 2.
C3_NoLostUpdate ==
    ( /\ \A s \in Sessions : sess[s].pc = "done"
      /\ sess[1].result /= 0
      /\ sess[1].result = sess[2].result )
        => commands[sess[1].result].use_count = 2

\* The tier of get_suggestions_for_context that first admits a command:
\* 1 an execution in a directory like the last segment of cwd, 2 owned by
\* user, 3 in a shared scope (4: none).
C10_Rank(id, a) ==
    IF /\ ~AbsentS(a.cwd)
       /\ \E e \in DOMAIN executions :
             /\ executions[e].command_id = id
             /\ SqlLike(executions[e].cwd,
                        <<"%">> \o LastSegment(a.cwd) \o <<"%">>)
    THEN 1
    ELSE IF ~Absent(a.user) /\ commands[id].user = a.user THEN 2
    ELSE IF commands[id].scope /= PERSONAL THEN 3
    ELSE 4

\* C10: get_suggestions_for_context returns at most `limit` commands, none
\* of them twice, those the directory-history tier contributes first, then
\* those of the user tier, then those of the shared-scope tier.
C10_Suggestions ==
    [][last'.op = "get_suggestions_for_context" =>
        \A a \in SuggestArgs :
            (a.user = last'.user /\ get_suggestions_for_context(a)) =>
                LET out == last'.out IN
                /\ Len(out) <= a.limit
                /\ \A i, j \in DOMAIN out : i /= j => out[i] /= out[j]
                /\ \A i \in DOMAIN out :
                      out[i] \in DOMAIN commands /\ C10_Rank(out[i], a) <= 3
                /\ \A i, j \in DOMAIN out :
                      i < j => C10_Rank(out[i], a) <= C10_Rank(out[j], a)]_vars

\* Two commands were suggested: one with an execution on record, which the
\* user also owns, before one without.
C10_Witness ==
    /\ last.op = "get_suggestions_for_context"
    /\ last.limit = 2
    /\ Len(last.out) = 2
    /\ last.user /= None
    /\ commands[last.out[1]].user = last.user
    /\ \E e \in DOMAIN executions : executions[e].command_id = last.out[1]
    /\ \A e \in DOMAIN executions : executions[e].command_id /= last.out[2]

\* The step is the return of a call of one of `ops`, one call at a time (the
\* clock does not advance in it).
Completes(ops) == last'.op \in ops /\ now' = now /\ sess' = sess

\* C11: get_command_similarity returns the empty list when the identifier
\* is not stored; otherwise it returns at most `limit` commands, all of them
\* stored, and never the command with the given identifier.
C11_Similarity ==
    [][Completes({"get_command_similarity"}) =>
        LET out == last'.out IN
        /\ last'.id \notin DOMAIN commands => out = <<>>
        /\ Len(out) <= last'.limit
        /\ \A i \in DOMAIN out :
              out[i] \in DOMAIN commands /\ out[i] /= last'.id]_vars

\* With limit 1 the one command returned is of the base command's namespace
\* and shares a word with it: both queries admit it, and it is listed once.
C11_Witness ==
    /\ last.op = "get_command_similarity"
    /\ last.id \in DOMAIN commands
    /\ last.limit = 1
    /\ Len(last.out) = 1
    /\ commands[last.out[1]].namespace = commands[last.id].namespace
    /\ overlap(last.out[1], last.id) > 0

\* C12: a delete_command that succeeds removes the command and every
\* execution row that references it; every other command and the execution
\* rows of every other command stay as they were.
C12_CascadeDelete ==
    [][(Completes({"delete_command"}) /\ last'.result /= 0) =>
        LET id == last'.result IN
        /\ id \in DOMAIN commands
        /\ commands' = Remove(commands, {id})
        /\ \A e \in DOMAIN executions' : executions'[e].command_id /= id
        /\ \A e \in DOMAIN executions :
              executions[e].command_id /= id =>
                  (e \in DOMAIN executions' /\ executions'[e] = executions[e])
        /\ DOMAIN executions' \subseteq DOMAIN executions]_vars

\* A command was deleted by its owner; of the two execution rows recorded,
\* the first is gone and the second, of the command still stored, is there.
C12_Witness ==
    /\ last.op = "delete_command"
    /\ last.result /= 0
    /\ last.result \notin DOMAIN commands
    /\ DOMAIN executions = {2}
    /\ executions[2].command_id \in DOMAIN commands

\* C13 as claimed: a detect_project_context call on a directory pattern
\* seen before raises the stored confidence score of the pattern by 5, up
\* to 100, and reports the raised score.
C13_ConfidenceRaised ==
    [][(Completes({"detect_project_context"}) /\ ~last'.is_new) =>
        LET i == last'.result IN
        /\ project_contexts'[i].confidence_score =
                Min(100, project_contexts[i].confidence_score + 5)
        /\ last'.confidence = project_contexts'[i].confidence_score]_vars

Patterns == {LastSegment(d) : d \in Directories}

\* C14 as claimed: there is at most one project context per directory
\* pattern, and its usage_count is the number of detect_project_context
\* calls completed for the pattern.
C14_OnePerPatternCounted ==
    \A p \in Patterns :
        /\ Cardinality(existing_context(p)) <= 1
        /\ existing_context(p) = {} => Counted(detections, p) = 0
        /\ \A i \in existing_context(p) :
              project_contexts[i].usage_count = Counted(detections, p)

\* A context field the k-th tier of recall_command compares is absent.
C15_Skipped(k, a) ==
    CASE k = 1 -> Absent(a.user) \/ Absent(a.hostname) \/ AbsentS(a.cwd)
      [] k = 2 -> Absent(a.user) \/ Absent(a.hostname)
      [] k = 3 -> Absent(a.hostname) \/ AbsentS(a.cwd)
      [] k = 4 -> Absent(a.hostname)
      [] OTHER -> FALSE

C15_Tier(k, a) == IF C15_Skipped(k, a) THEN {} ELSE C1_Tier(k, a)

C15_Holds(a) ==
    LET nonEmpty == {k \in 1..5 : C15_Tier(k, a) /= {}} IN
    /\ IF nonEmpty = {}
       THEN last'.result = 0
       ELSE \E k \in nonEmpty :
               /\ \A j \in nonEmpty : k <= j
               /\ last'.result \in C15_Tier(k, a)
    /\ (Absent(a.user) /\ Absent(a.hostname) /\ AbsentS(a.cwd)
            /\ last'.result /= 0) =>
          \A j \in C1_Tier(5, a) :
              commands[last'.result].created_at >= commands[j].created_at

\* C15 as claimed: in recall_command a tier that compares an absent context
\* field (user, hostname, cwd) is skipped, not matched against stored
\* values; with no context at all the result is the most recently created
\* command of the requested name and namespace.
C15_AbsentSkipsTier ==
    [][last'.op = "recall_command" =>
        \A a \in RecallArgs :
            (a.user = last'.user /\ recall_command(a)) => C15_Holds(a)]_vars

OwnsNone(a) ==
    /\ ~Absent(a.user)
    /\ \A id \in C1_Tier(5, a) : commands[id].user /= a.user

HostCwdMatches(a) ==
    {id \in C1_Tier(5, a) :
        commands[id].hostname = a.hostname /\ commands[id].cwd = a.cwd}

HostMatches(a) == {id \in C1_Tier(5, a) : commands[id].hostname = a.hostname}

\* C16 as claimed: when the caller's user owns no command of the requested
\* name and namespace, recall_command returns a command whose hostname and
\* cwd equal the request's if there is one, else one whose hostname equals
\* the request's if there is one, whatever the scope of those commands.
C16_HostCwdPreferred ==
    [][last'.op = "recall_command" =>
        \A a \in RecallArgs :
            ( /\ a.user = last'.user /\ recall_command(a)
              /\ OwnsNone(a) /\ ~Absent(a.hostname) /\ ~AbsentS(a.cwd) ) =>
                /\ HostCwdMatches(a) /= {} => last'.result \in HostCwdMatches(a)
                /\ HostMatches(a) /= {} => last'.result \in HostMatches(a)]_vars

InHintedNamespace(a) ==
    {id \in DOMAIN commands :
        commands[id].name = a.name /\ commands[id].namespace = a.namespace_hint}

\* The case of C17: a namespace hint, no cwd, and a command of the
\* requested name in the hinted namespace.
C17_Case(a) ==
    /\ ~Absent(a.namespace_hint)
    /\ AbsentS(a.cwd)
    /\ InHintedNamespace(a) /= {}

\* C17 as claimed: with a namespace hint and no cwd, when a command of the
\* requested name is stored in the hinted namespace, recall_command_by_name
\* returns a command of the hinted namespace.
C17_HintedNamespace ==
    [][last'.op = "recall_command_by_name" =>
        \A a \in ByNameArgs :
            (a.user = last'.user /\ recall_command_by_name(a) /\ C17_Case(a)) =>
                last'.result \in InHintedNamespace(a)]_vars

\* The caller's personal commands of the requested name on the hostname.
OwnOnHost(a) ==
    IF Absent(a.user) \/ Absent(a.hostname) THEN {}
    ELSE {id \in DOMAIN commands :
            /\ commands[id].name = a.name
            /\ commands[id].scope = PERSONAL
            /\ commands[id].user = a.user
            /\ commands[id].hostname = a.hostname}

\* C17 as amended: in that case the command returned is of the hinted
\* namespace, whatever the use counts, unless user and hostname are given
\* and the caller has personal commands of that name on that hostname, none
\* of them in the hinted namespace: then one of those is returned.
C17_HintedNamespaceUnlessOwnOnHost ==
    [][last'.op = "recall_command_by_name" =>
        \A a \in ByNameArgs :
            (a.user = last'.user /\ recall_command_by_name(a) /\ C17_Case(a)) =>
                IF OwnOnHost(a) /= {} /\ OwnOnHost(a) \cap InHintedNamespace(a) = {}
                THEN last'.result \in OwnOnHost(a)
                ELSE last'.result \in InHintedNamespace(a)]_vars

\* The namespace-hint tier returned a command that had not been used while
\* a command of that name in another namespace had.
C17_Witness ==
    /\ last.op = "recall_command_by_name"
    /\ last.tier = 6
    /\ last.result \in DOMAIN commands
    /\ commands[last.result].use_count = 1
    /\ \E j \in DOMAIN commands :
          /\ commands[j].name = commands[last.result].name
          /\ commands[j].namespace /= commands[last.result].namespace
          /\ commands[j].use_count = 1
          /\ commands[j].last_used_at < commands[last.result].last_used_at

\* C18: update_command, rename_command and delete_command called on a
\* command of a shared scope by a user who is not its owner, and who can
\* read it by identifier, return not-found and change nothing; they take
\* effect only for the owner.
C18_OwnerOnlyMutation ==
    [][Completes({"update_command", "rename_command", "delete_command"}) =>
        LET id == last'.id
            u  == last'.user
        IN  /\ ( /\ id \in DOMAIN commands
                 /\ commands[id].scope /= PERSONAL
                 /\ commands[id].user /= u ) =>
                    /\ GetCommandById(id, u) = id
                    /\ last'.result = 0
                    /\ commands' = commands
                    /\ executions' = executions
            /\ last'.result /= 0 => commands[id].user = u]_vars

\* A user who is not the owner asked to update a shared command he can
\* read; the command is stored as it was.
C18_Witness ==
    /\ last.op = "update_command"
    /\ last.result = 0
    /\ last.user /= None
    /\ last.id \in DOMAIN commands
    /\ commands[last.id].scope /= PERSONAL
    /\ commands[last.id].user /= last.user
    /\ GetCommandById(last.id, last.user) = last.id

ReadOperations ==
    {"get_suggestions_for_context", "get_command_similarity",
     "get_execution_analytics", "get_command_by_id", "get_commands"}

\* C19: get_suggestions_for_context, get_command_similarity,
\* get_execution_analytics, get_command_by_id and get_commands leave every
\* command (use_count and last_used_at included), every execution row and
\* every project context as it was.
C19_ReadOnly ==
    [][Completes(ReadOperations) =>
        /\ commands' = commands
        /\ executions' = executions
        /\ project_contexts' = project_contexts]_vars

\* get_command_by_id returned a command that was never used, with an
\* execution row and a project context in the store.
C19_Witness ==
    /\ last.op = "get_command_by_id"
    /\ last.result \in DOMAIN commands
    /\ commands[last.result].use_count = 0
    /\ commands[last.result].last_used_at = NullTime
    /\ executions /= EmptyTable
    /\ project_contexts /= EmptyTable

\* C20: an execution row appears only in create_execution_history, one row
\* per call; it disappears only in a delete_command that deletes the command
\* it references; it is never changed; recall_command,
\* recall_command_by_name and track_execution leave the table as it was.
C20_HistoryLifecycle ==
    [][(now' = now /\ sess' = sess) =>
        /\ \A e \in DOMAIN executions \cap DOMAIN executions' :
              executions'[e] = executions[e]
        /\ DOMAIN executions' \ DOMAIN executions /= {} =>
              /\ last'.op = "create_execution_history"
              /\ DOMAIN executions' = DOMAIN executions \cup {last'.result}
        /\ \A e \in DOMAIN executions \ DOMAIN executions' :
              /\ last'.op = "delete_command"
              /\ last'.result = executions[e].command_id
              /\ last'.result \notin DOMAIN commands'
        /\ last'.op \in {"recall_command", "recall_command_by_name",
                         "track_execution"} => executions' = executions]_vars

\* track_execution counted a use of a command that has an execution row;
\* both rows recorded are in the table.
C20_Witness ==
    /\ last.op = "track_execution"
    /\ last.result \in DOMAIN commands
    /\ commands[last.result].use_count = 1
    /\ DOMAIN executions = {1, 2}
    /\ \E e \in DOMAIN executions : executions[e].command_id = last.result

\* The sum of f over the finite set S of its arguments.
RECURSIVE SumOver(_, _)
SumOver(f, S) ==
    IF S = {} THEN 0
    ELSE LET x == CHOOSE y \in S : TRUE IN f[x] + SumOver(f, S \ {x})

\* What the claim says of the dictionary `out` returned for user and days,
\* W being the execution rows inside the window.
C21_Report(out, W, days) ==
    LET rows == {e \in DOMAIN executions : e \in W} IN
    /\ out.total_executions = Cardinality(rows)
    /\ out.unique_commands =
          Cardinality({executions[e].command_id : e \in rows} \cap DOMAIN commands)
    /\ Len(out.most_used_commands) <= 10
    /\ \A i, j \in DOMAIN out.most_used_commands :
          i < j => out.most_used_commands[i].execution_count
                      >= out.most_used_commands[j].execution_count
    /\ SumOver(out.execution_methods, DOMAIN out.execution_methods)
          = out.total_executions
    /\ days = 0 => out.average_executions_per_day = <<0, 1>>

C22_LatestCreated ==
    [][(last'.op = "recall_command" /\ last'.result /= 0) =>
        \A a \in RecallArgs :
            (a.user = last'.user /\ recall_command(a)) =>
                /\ last'.result \in RecallRows(last'.tier, a)
                /\ \A id \in RecallRows(last'.tier, a) :
                      commands[id].created_at
                          <= commands[last'.result].created_at]_vars

\* The tier of the caller's commands on the hostname held two candidates of
\* different age, and the younger one was returned.
C22_Witness ==
    /\ last.op = "recall_command"
    /\ last.tier = 2
    /\ last.result \in DOMAIN commands
    /\ \E id \in DOMAIN commands :
          /\ id /= last.result
          /\ commands[id].scope = PERSONAL
          /\ commands[id].user = last.user
          /\ commands[id].name = commands[last.result].name
          /\ commands[id].namespace = commands[last.result].namespace
          /\ commands[id].hostname = commands[last.result].hostname
          /\ commands[id].created_at < commands[last.result].created_at

\* str contains seg: seg is a run of consecutive characters of str.
Contains(str, seg) ==
    /\ str /= NoneS
    /\ \E i \in 0 .. Len(str) :
          i + Len(seg) <= Len(str) /\ SubSeq(str, i + 1, i + Len(seg)) = seg

\* The directory tier is reached: cwd is given and tiers 1-4 yield nothing.
C23_Reached(a) ==
    /\ ~AbsentS(a.cwd)
    /\ \A k \in 1..4 : ByNameRows(k, a) = {}

\* The commands that qualify for the directory tier as the claim says.
C23_Qualifying(a) ==
    {id \in DOMAIN commands :
        /\ commands[id].name = a.name
        /\ Contains(commands[id].cwd, LastSegment(a.cwd))
        /\ ~Absent(a.user) => commands[id].user = a.user}

\* The commands that qualify when the last segment is matched the way the
\* store's LIKE matches "%segment%": letters without regard to case, "_" in
\* the segment standing for any one character and "%" for any run.
C23_QualifyingLike(a) ==
    {id \in DOMAIN commands :
        /\ commands[id].name = a.name
        /\ commands[id].cwd /= NoneS
        /\ LikeMatch(<<"%">> \o LastSegment(a.cwd) \o <<"%">>, commands[id].cwd)
        /\ ~Absent(a.user) => commands[id].user = a.user}

\* With Q the qualifying commands: when the tier is reached and Q is not
\* empty, a command of Q of the highest use_count is returned; the tier
\* returns no command outside Q.
C23_Holds(Q, a) ==
    /\ (C23_Reached(a) /\ Q /= {}) =>
          /\ last'.result \in Q
          /\ \A id \in Q :
                commands[id].use_count <= commands[last'.result].use_count
    /\ last'.tier = 5 => last'.result \in Q

ScanPos(scan, id) == CHOOSE i \in DOMAIN scan : scan[i] = id

\* c1 comes before c2 in the word-overlap ranking around the base command:
\* more words shared, or as many and met earlier by the scan.
C24_Before(c1, c2, base, scan) ==
    \/ overlap(c1, base) > overlap(c2, base)
    \/ /\ overlap(c1, base) = overlap(c2, base)
       /\ ScanPos(scan, c1) < ScanPos(scan, c2)

C24_Holds(base, limit, out, scan) ==
    LET N == {id \in DOMAIN commands \ {base} :
                 commands[id].namespace = commands[base].namespace}
        n == Cardinality(N)
        sharing == {id \in DOMAIN commands \ {base} : overlap(id, base) > 0}
        rest == SubSeq(out, n + 1, Len(out))
    IN  n < limit =>
        /\ Len(out) >= n
        /\ {out[i] : i \in 1..n} = N
        /\ \A i, j \in 1..n :
              i < j => commands[out[i]].use_count >= commands[out[j]].use_count
        /\ Len(rest) = Min(limit - n, Cardinality(sharing))
        /\ \A i \in DOMAIN rest : rest[i] \in sharing
        /\ \A i, j \in DOMAIN rest :
              i < j => C24_Before(rest[i], rest[j], base, scan)
        /\ \A c \in sharing \ {rest[i] : i \in DOMAIN rest} :
              \A i \in DOMAIN rest : C24_Before(rest[i], c, base, scan)
        /\ \A i \in DOMAIN out : out[i] \in N \/ overlap(out[i], base) > 0

\* C24: when fewer than `limit` other commands are of the base command's
\* namespace, get_command_similarity returns those first, by use_count
\* descending, and then the commands that share a word with the base
\* command's text, by the number of shared words descending and, for equal
\* numbers, in the order of the scan; a command outside the namespace that
\* shares no word is never returned.
C24_NamespaceThenOverlap ==
    [][(Completes({"get_command_similarity"}) /\ last'.id \in DOMAIN commands) =>
        C24_Holds(last'.id, last'.limit, last'.out, last'.scan)]_vars

\* One command of the namespace, then the command that shares two words,
\* then one of two commands that share one word: the one the scan met first.
C24_Witness ==
    /\ last.op = "get_command_similarity"
    /\ last.id \in DOMAIN commands
    /\ Len(last.out) = 3
    /\ commands[last.out[1]].namespace = commands[last.id].namespace
    /\ overlap(last.out[1], last.id) = 0
    /\ overlap(last.out[2], last.id) = 2
    /\ overlap(last.out[3], last.id) = 1
    /\ \E c \in DOMAIN commands :
          /\ c /= last.out[3]
          /\ overlap(c, last.id) = 1
          /\ ScanPos(last.scan, last.out[3]) < ScanPos(last.scan, c)
          /\ last.out[3] > c

\* The type the first marker present gives, marker by marker in the order
\* of the table ("None" when no marker is present).
C25_Type(files) ==
    IF "package.json" \in files THEN "npm"
    ELSE IF "Cargo.toml" \in files THEN "cargo"
    ELSE IF "pyproject.toml" \in files THEN "python"
    ELSE IF "pom.xml" \in files THEN "maven"
    ELSE IF ".git" \in files THEN "git"
    ELSE IF "requirements.txt" \in files THEN "pip"
    ELSE IF "go.mod" \in files THEN "go"
    ELSE IF "Dockerfile" \in files THEN "docker"
    ELSE None

\* A project name is parsed: the first marker is a manifest the code reads
\* (package.json, Cargo.toml) and it gives a name.
C25_Named(fs) == C25_Type(fs.files) \in {"npm", "cargo"} /\ fs.name /= NoneS

C25_Holds(d, fs) ==
    LET i == last'.result
        confidence == IF C25_Type(fs.files) = None THEN 50
                      ELSE IF C25_Named(fs) THEN 90 ELSE 80
    IN  /\ i \notin DOMAIN project_contexts
        /\ DOMAIN project_contexts' = DOMAIN project_contexts \cup {i}
        /\ \A j \in DOMAIN project_contexts :
              project_contexts'[j] = project_contexts[j]
        /\ project_contexts'[i].directory_pattern = LastSegment(d)
        /\ project_contexts'[i].usage_count = 1
        /\ project_contexts'[i].project_type =
              (IF C25_Type(fs.files) = None THEN "unknown" ELSE C25_Type(fs.files))
        /\ project_contexts'[i].confidence_score = confidence
        /\ last'.confidence = confidence
        /\ project_contexts'[i].detected_namespace =
              (IF C25_Named(fs) THEN fs.name ELSE LastSegment(d))
        /\ last'.out = <<>>

\* C25: the first detect_project_context for a directory pattern stores a
\* new ProjectContext with usage_count 1 whose type is that of the first
\* marker file present in the order of the table, with confidence 80, or 90
\* when a project name is parsed from the manifest, which is then the
\* namespace; with no marker there is no type, the namespace is the last
\* path segment of the directory and the confidence is 50; a manifest that
\* gives no name leaves the directory name as namespace; the response lists
\* no similar commands.
C25_FirstDetection ==
    [][(last'.op = "detect_project_context" /\ last'.is_new) =>
        \A d \in Directories, fs \in DetectProbes :
            (existing_context(LastSegment(d)) = {}
                 /\ detect_project_context(d, "u1", fs)) => C25_Holds(d, fs)]_vars

\* A directory with package.json and .git was detected as npm, its manifest
\* gave the namespace, and a directory without markers got its own name;
\* a command of that namespace is stored and was not listed.
C25_Witness ==
    /\ last.op = "detect_project_context"
    /\ last.is_new
    /\ last.confidence = 50
    /\ last.out = <<>>
    /\ \E id \in DOMAIN commands :
          Chars(commands[id].namespace)
              = project_contexts[last.result].detected_namespace
    /\ \E j \in DOMAIN project_contexts :
          /\ project_contexts[j].project_type = "npm"
          /\ project_contexts[j].confidence_score = 90
          /\ project_contexts[j].detected_namespace
                /= project_contexts[j].directory_pattern

\* C26: no two stored commands agree on all seven of command text, name,
\* namespace, owner, cwd, hostname and scope.
C26_UniqueSevenTuple ==
    \A i, j \in DOMAIN commands :
        i /= j => SevenTuple(commands[i]) /= SevenTuple(commands[j])

\* C27: create_command calls that overlap leave no more than one stored
\* record for each 7-tuple they were called with, however their existence
\* checks, inserts and commits interleave.
C27_OneRecordPerTuple ==
    \A cmd \in ConcCreateInputs : Cardinality(WithTuple(commands, cmd)) <= 1

\* C28: the list get_command_similarity returns holds no command
\* identifier more than once.
C28_NoDuplicate ==
    [][Completes({"get_command_similarity"}) =>
        \A i, j \in DOMAIN last'.out :
            i /= j => last'.out[i] /= last'.out[j]]_vars

\* The commands one of the three tiers of get_suggestions_for_context admits.
C29_Eligible(a) == {id \in DOMAIN commands : C10_Rank(id, a) <= 3}

\* C29: get_suggestions_for_context returns exactly `limit` commands
\* whenever at least `limit` distinct commands are eligible across its three
\* tiers.
C29_FillsLimit ==
    [][last'.op = "get_suggestions_for_context" =>
        \A a \in SuggestArgs :
            (a.user = last'.user /\ a.limit = last'.limit
                 /\ get_suggestions_for_context(a)) =>
                (Cardinality(C29_Eligible(a)) >= a.limit
                    => Len(last'.out) = a.limit)]_vars

\* C30: a recall_command or recall_command_by_name that returns a command
\* changes nothing but use_count and last_used_at of that command: its
\* text, name, namespace, owner, cwd, hostname, scope and created_at, every
\* other command, the execution rows and the project contexts are as they
\* were.
C30_RecallFrame ==
    [][(Completes({"recall_command", "recall_command_by_name"})
            /\ last'.result /= 0) =>
        LET id == last'.result IN
        /\ DOMAIN commands' = DOMAIN commands
        /\ id \in DOMAIN commands
        /\ \A other \in DOMAIN commands \ {id} :
              commands'[other] = commands[other]
        /\ SevenTuple(commands'[id]) = SevenTuple(commands[id])
        /\ commands'[id].created_at = commands[id].created_at
        /\ executions' = executions
        /\ project_contexts' = project_contexts]_vars

\* A recall returned one of two stored commands of the same name and
\* namespace; the other has never been used, and an execution row and a
\* project context are stored.
C30_Witness ==
    /\ last.op \in {"recall_command", "recall_command_by_name"}
    /\ last.result \in DOMAIN commands
    /\ commands[last.result].use_count = 1
    /\ \E other \in DOMAIN commands \ {last.result} :
          /\ commands[other].name = commands[last.result].name
          /\ commands[other].use_count = 0
          /\ commands[other].last_used_at = NullTime
    /\ executions /= EmptyTable
    /\ project_contexts /= EmptyTable

====
